---- MODULE Spec2Model ----
(***************************************************************************)
(* Cross-reference indexing and link resolution of agda-web-docs-lib:      *)
(* the position-mapping indexer (src/src/indexer.ts), the link rewriter    *)
(* (AgdaDocsTransformer in src/src/types.ts) and the runs that drive them  *)
(* (the process action of src/src/cli.ts, and the programmatic usage of    *)
(* src/README.md).                                                         *)
(*                                                                         *)
(* A document is modelled by what the code queries in its DOM:             *)
(*   nblocks  the number of pre.Agda code blocks, in document order;       *)
(*   anchors  the elements that carry an id made of digits, in document    *)
(*            order, each with the place it occupies after line wrapping;  *)
(*   links    the a[href] elements that sit in the code, in document       *)
(*            order, each with the block that holds it;                    *)
(*   wrapped  whether the code lines carry the ids "B<k>-LC<n>".           *)
(* The line-number gutter links that addLineNumbersToCodeBlocks creates    *)
(* (href "#B<k>-L<n>") and the header/sidebar links never end in "#digits" *)
(* and are left out of the link list.                                      *)
(*                                                                         *)
(* Strings are sequences of tokens: a file name is <<stem, ".html">>, an   *)
(* href is a record of the text before the '#' (a token sequence) and the  *)
(* fragment, which is digits ("num"), a line address "B<k>-L<n>" ("line")  *)
(* or absent ("none").                                                     *)
(*                                                                         *)
(* Specifications:                                                         *)
(*   Spec         indexing and link rewriting, from the command line and   *)
(*                from the library;                                        *)
(*   SpecRun      the whole run of the command line with its workers and   *)
(*                the search index; FairRun adds the scheduling;           *)
(*   SpecPersist  writeSearchIndex and writeChunkedSearchIndex;            *)
(*   SpecCopy     getGlobalMappings, setGlobalMappings and the table of a  *)
(*                worker;                                                  *)
(*   SpecWrap     addLineNumbersToCodeBlocks;                              *)
(*   SpecLines    the lines of one document, as the indexer, the           *)
(*                transformer and the search index number them.            *)
(***************************************************************************)
EXTENDS Integers, Sequences, FiniteSets, TLC

(***************************************************************************)
(* Bounds of the model and constants of the program.                       *)
(***************************************************************************)
\* most links of the document under test
MaxLinks == 2
\* most files of the input directory
MaxFiles == 22
\* most invocations of the link rewriter over one written document
MaxPasses == 2
\* indexer.ts:280  const batchSize = 20
IndexBatchSize == 20
\* cli.ts:16  MEMORY_EFFICIENT_BATCH_SIZE = 10
MEMORY_EFFICIENT_BATCH_SIZE == 10

(***************************************************************************)
(* File names and hrefs.                                                   *)
(***************************************************************************)
Stems ==
  << "Consumer", "ModuleA", "Other", "P04", "P05", "P06", "P07", "P08", "P09",
     "P10", "P11", "P12", "P13", "P14", "P15", "P16", "P17", "P18", "P19",
     "P20", "P21", "P22", "P23", "P24", "P25", "P26" >>

FileName(stem) == << stem, ".html" >>

\* the i-th entry of the directory listing, fs.readdirSync(...).filter(.html)
ListedFile(i) == FileName(Stems[i])

NoText == << >>

\* "#<pos>" or "<pre>#<pos>"
NumHref(pre, pos) == [pre |-> pre, kind |-> "num", pos |-> pos, blk |-> 0, line |-> 0]

\* the value of an attribute that is not set
NoAttr == [pre |-> NoText, kind |-> "none", pos |-> 0, blk |-> 0, line |-> 0]

\* types.ts:137  `#${blockId}-L${lineNumber}`, blockId being "B<blk>"
SameDocHref(blk, line) ==
  [pre |-> NoText, kind |-> "line", pos |-> 0, blk |-> blk, line |-> line]

\* types.ts:167  `${targetFile}#B1-L${lineNumber}`
CrossDocHref_SecondBlock(targetFile, line) ==
  [pre |-> targetFile, kind |-> "line", pos |-> 0, blk |-> 2, line |-> line]

CrossDocHref(targetFile, line) ==
  [pre |-> targetFile, kind |-> "line", pos |-> 0, blk |-> 1, line |-> line]

\* types.ts:119  href.match(/(.+?\.html)?#(\d+)$/): the href ends in '#' and digits
HashMatch(href) == href.kind = "num"

\* types.ts:121  hashMatch[1] || '': the text before the '#', if it ends in
\* ".html" and has at least one character before that; the match is not
\* anchored at the start, so any other prefix is skipped over
FilePart(href) ==
  IF Len(href.pre) >= 2 /\ href.pre[Len(href.pre)] = ".html" THEN href.pre ELSE NoText

\* types.ts:122  hashMatch[2]
Position(href) == href.pos

(***************************************************************************)
(* The mapping table: file name -> (anchor -> line number).                *)
(***************************************************************************)
EmptyMap == [a \in {} |-> 0]

\* the idiom `table[file] || {}` of types.ts:108 and of buildSearchIndex
SubMap(table, file) == IF file \in DOMAIN table THEN table[file] ELSE EmptyMap

\* the truthiness test `m[position]` of types.ts:126 and types.ts:159
Mapped(m, position) == position \in DOMAIN m /\ m[position] # 0

\* indexer.ts:251 and indexer.ts:259  { ...table }: a copy of the table
CopyTable(table) == [f \in DOMAIN table |-> table[f]]

(***************************************************************************)
(* Indexing one document.                                                  *)
(***************************************************************************)
\* indexer.ts:393-438  the line of an element after line wrapping, 0 for null
\*   blk = 0          no pre.Agda ancestor: closest() is null
\*   place "line"     inside the code-line div number `line`
\*   place "nested"   inside a wrapper that is a child of .code-content and
\*                    follows code-line number `line` (0: none precedes it)
\*   place "loose"    a child of .code-content itself, outside every code-line
findLineNumberForElement_ZeroBased(anchor) ==
  IF anchor.blk = 0 THEN 0
  ELSE IF anchor.place = "line" THEN anchor.line - 1
  ELSE IF anchor.place = "nested" /\ anchor.line > 0 THEN anchor.line
  ELSE 1

findLineNumberForElement_NoDefault(anchor) ==
  IF anchor.blk = 0 THEN 0
  ELSE IF anchor.place = "line" THEN anchor.line
  ELSE IF anchor.place = "nested" /\ anchor.line > 0 THEN anchor.line
  ELSE 0

findLineNumberForElement(anchor) ==
  IF anchor.blk = 0 THEN 0
  ELSE IF anchor.place = "line" THEN anchor.line
  ELSE IF anchor.place = "nested" /\ anchor.line > 0 THEN anchor.line
  ELSE 1

\* indexer.ts:302-311  the forEach over the elements with an id, in document
\* order: a later element with the same id overwrites the entry
RECURSIVE ScanAnchors_FirstWins(_, _)
ScanAnchors_FirstWins(anchors, mappings) ==
  IF anchors = << >> THEN mappings
  ELSE LET el == Head(anchors)
           lineNumber == findLineNumberForElement(el)
       IN ScanAnchors_FirstWins(Tail(anchors),
                                IF lineNumber # 0
                                THEN mappings @@ (el.id :> lineNumber)
                                ELSE mappings)

RECURSIVE ScanAnchors(_, _)
ScanAnchors(anchors, mappings) ==
  IF anchors = << >> THEN mappings
  ELSE LET el == Head(anchors)
           lineNumber == findLineNumberForElement(el)
       IN ScanAnchors(Tail(anchors),
                      IF lineNumber # 0
                      THEN (el.id :> lineNumber) @@ mappings
                      ELSE mappings)

\* indexer.ts:295-311  the sub-map of one document
IndexDocument(doc) == ScanAnchors(doc.anchors, EmptyMap)

(***************************************************************************)
(* The link rewriter.                                                      *)
(***************************************************************************)
\* types.ts:114  link.getAttribute('href')
LinkHref_PreferOriginal(link) == IF link.orig # NoAttr THEN link.orig ELSE link.href

LinkHref(link) == link.href

\* types.ts:202-213  the first block, in document order, that holds an element
\* with id = position or an element with data-position = position; 0 if none
RECURSIVE FirstBlockWith(_, _, _)
FirstBlockWith(doc, position, k) ==
  IF k > doc.nblocks THEN 0
  ELSE IF \/ \E i \in 1..Len(doc.anchors) :
               doc.anchors[i].blk = k /\ doc.anchors[i].id = position
          \/ \E i \in 1..Len(doc.links) :
               doc.links[i].blk = k /\ doc.links[i].dpos = position
       THEN k
       ELSE FirstBlockWith(doc, position, k + 1)

\* types.ts:193-219  the block number, 0 for null (no pre.Agda at all)
findCodeBlockContainingPosition(doc, position) ==
  IF doc.nblocks <= 1 THEN doc.nblocks
  ELSE LET k == FirstBlockWith(doc, position, 1)
       IN IF k # 0 THEN k ELSE 1

\* types.ts:151 and types.ts:181  link.textContent || '[No text content]'
DiagnosticText(link) == IF link.text = "" THEN "[No text content]" ELSE link.text

\* types.ts:148-152  one entry of unmappedLinks
Diagnostic(href, i, link) == [href |-> href, element |-> i, text |-> DiagnosticText(link)]

\* types.ts:136-137 and types.ts:166-167  the original href is stored in
\* data-original-href, then the href is replaced
Rewritten_HrefFirst(link, href, newHref) ==
  [link EXCEPT !.href = newHref, !.orig = newHref, !.hoverable = TRUE]

Rewritten(link, href, newHref) ==
  [link EXCEPT !.orig = href, !.href = newHref, !.hoverable = TRUE]

\* types.ts:113-186  the body of links.forEach for the i-th link: the
\* document and the list of unmapped links afterwards
RewriteLink(st, i, currentFileMappings, allMappings) ==
  LET doc == st.doc
      link == doc.links[i]
      href == LinkHref(link)
  IN
  IF ~HashMatch(href) THEN st
  ELSE
    LET filePart == FilePart(href)
        position == Position(href)
    IN
    IF filePart = NoText
    THEN IF Mapped(currentFileMappings, position)
         THEN LET lineNumber == currentFileMappings[position]
                  targetCodeBlock == findCodeBlockContainingPosition(doc, position)
                  blockId == IF targetCodeBlock # 0 THEN targetCodeBlock ELSE 1
              IN [st EXCEPT !.doc.links[i] =
                    [Rewritten(link, href, SameDocHref(blockId, lineNumber))
                       EXCEPT !.dpos = position, !.dblk = blockId]]
         ELSE [st EXCEPT !.unmapped = Append(@, Diagnostic(href, i, link))]
    ELSE LET targetFile == filePart
         IN IF Mapped(SubMap(allMappings, targetFile), position)
            THEN LET lineNumber == allMappings[targetFile][position]
                 IN [st EXCEPT !.doc.links[i] =
                       [Rewritten(link, href, CrossDocHref(targetFile, lineNumber))
                          EXCEPT !.dpos = position, !.dfile = targetFile]]
            ELSE [st EXCEPT !.unmapped = Append(@, Diagnostic(href, i, link))]

RECURSIVE RewriteFrom(_, _, _, _)
RewriteFrom(st, i, currentFileMappings, allMappings) ==
  IF i > Len(st.doc.links) THEN st
  ELSE RewriteFrom(RewriteLink(st, i, currentFileMappings, allMappings),
                   i + 1, currentFileMappings, allMappings)

\* types.ts:100-187  transformAgdaLinks over the document `doc` of the file
\* `currentFile`, reading the table `allMappings`: the document afterwards,
\* the local list unmappedLinks as it stands when the method ends, and what
\* the method returns (it is declared void: nothing)
transformAgdaLinks(doc, currentFile, allMappings) ==
  LET currentFileMappings ==
        IF currentFile # NoText THEN SubMap(allMappings, currentFile) ELSE EmptyMap
      st == RewriteFrom([doc |-> doc, unmapped |-> << >>], 1,
                        currentFileMappings, allMappings)
  IN [doc |-> st.doc, unmappedLinks |-> st.unmapped, returned |-> << >>]

(***************************************************************************)
(* The documents of the model.                                             *)
(***************************************************************************)
AnchorIds == {42, 100}

\* the places an anchor can occupy, in document order (block, then line)
AnchorSlots ==
  << [blk |-> 1, line |-> 0, place |-> "loose"],
     [blk |-> 1, line |-> 5, place |-> "line"],
     [blk |-> 0, line |-> 0, place |-> "outside"],
     [blk |-> 2, line |-> 3, place |-> "line"],
     [blk |-> 2, line |-> 3, place |-> "nested"] >>

Anchor(id, slot) == [id |-> id, blk |-> slot.blk, line |-> slot.line, place |-> slot.place]

SlotsIn(nblocks) == {s \in 1..Len(AnchorSlots) : AnchorSlots[s].blk <= nblocks}

\* the anchor lists of the document under test, in document order: no
\* anchor, one anchor, or two anchors (with the same id or not) in two slots
AnchorLayouts(nblocks) ==
  { << >> }
    \cup { << Anchor(a, AnchorSlots[s]) >> : a \in AnchorIds, s \in SlotsIn(nblocks) }
    \cup { << Anchor(p.a, AnchorSlots[p.s]), Anchor(p.b, AnchorSlots[p.t]) >> :
             p \in { q \in [a : AnchorIds, b : AnchorIds,
                            s : SlotsIn(nblocks), t : SlotsIn(nblocks)] : q.s < q.t } }

\* an a[href] element as the generator emits it: no data attributes yet
Link(href, blk, text) ==
  [href |-> href, blk |-> blk, text |-> text, orig |-> NoAttr, hoverable |-> FALSE,
   dpos |-> 0, dblk |-> 0, dfile |-> NoText]

LinkChoices(nblocks) ==
  { l \in { Link(NumHref(NoText, 100), 1, "ident"),
            Link(NumHref(NoText, 42), 1, "ident"),
            Link(NumHref(NoText, 999), 1, ""),
            Link(NumHref(FileName("ModuleA"), 100), 1, "ident"),
            Link(NumHref(FileName("Missing"), 100), 1, "ident"),
            Link(NumHref(NoText, 100), 2, "ident") } : l.blk <= nblocks }

\* link lists in document order: the blocks never decrease
LinkLists(nblocks) ==
  UNION { { l \in [1..n -> LinkChoices(nblocks)] :
              \A i \in 1..(n - 1) : l[i].blk <= l[i + 1].blk } : n \in 0..MaxLinks }

\* wrapped: the lines of the code blocks are .code-line elements with ids,
\* which they are once addLineNumbersToCodeBlocks has run (types.ts:280)
Doc(nblocks, anchors, links) ==
  [nblocks |-> nblocks, anchors |-> anchors, links |-> links, wrapped |-> FALSE]

\* the documents the document under test is drawn from
RichDocs ==
  UNION { { Doc(nb, a, l) : a \in AnchorLayouts(nb), l \in LinkLists(nb) } : nb \in 1..2 }

\* a module with two code blocks: anchor 42 on line 5 of the first, anchor
\* 100 on line 3 of the second
ModuleADoc ==
  Doc(2, << Anchor(42, AnchorSlots[2]), Anchor(100, AnchorSlots[4]) >>,
      << Link(NumHref(NoText, 100), 1, "ident"), Link(NumHref(NoText, 100), 2, "ident") >>)

\* a consumer without anchors of its own
ConsumerDoc ==
  Doc(1, << >>,
      << Link(NumHref(NoText, 42), 1, "ident"),
         Link(NumHref(FileName("ModuleA"), 100), 1, "ident") >>)

\* a document with an anchor of its own, a link to another module and a link
\* to a page that is not a module: "page.htm#42"
OtherDoc ==
  Doc(1, << Anchor(42, AnchorSlots[2]) >>,
      << Link(NumHref(FileName("P21"), 42), 1, "ident"),
         Link(NumHref(<< "page", ".htm" >>, 42), 1, "page") >>)

\* the content of a listed file, `rich` being the document under test
FileContent(file, rich) ==
  IF file = ListedFile(1) THEN rich
  ELSE IF file = ListedFile(2) THEN ModuleADoc
  ELSE OtherDoc

(***************************************************************************)
(* State.                                                                  *)
(***************************************************************************)
VARIABLES
  files,                   \* the listing of the input directory, in order
  content,                 \* file name -> document
  unreadable,              \* the files whose read or parse throws
  mode,                    \* "cli": the process action; "lib": README usage
  globalPositionMappings,  \* AgdaDocsIndexer.globalPositionMappings (main thread)
  indexPc,                 \* buildPositionMappings: idle, running, sleeping, done
  indexI,                  \* the next file of the listing to index
  processedCount,          \* indexer.ts:281
  cliPc,                   \* the process action's position
  batchStart,              \* cli.ts:167  i, 1-based
  units,                   \* the workers created so far, in creation order
  output,                  \* file name -> transformed document
  lastRewrite,             \* the latest invocation of transformAgdaLinks whose
                           \* document was written
  libPc,                   \* the README caller's position
  progress,                \* the calls of progressCallback so far: <<done, total>>
  unwritable,              \* the files whose transformed text cannot be written
  writeFails,              \* fs.writeFileSync of the search index throws
  searchIndex,             \* cli.ts:361  the index buildSearchIndex returned
  artifact,                \* search-index.json in the output directory
  \* writeSearchIndex and writeChunkedSearchIndex on their own
  persistIndex,            \* the index handed to writeSearchIndex
  persistPc,               \* start, chunking, done, thrown
  stack,                   \* the frames of writeChunkedSearchIndex, outermost first
  written,                 \* the chunk files written, in order of writing
  manifest,                \* search-index-metadata.json
  \* addLineNumbersToCodeBlocks on its own
  regions,                 \* the pre.Agda blocks of a document: their raw lines
  wrapNext,                \* the next block of codeBlocks.forEach
  assigned,                \* the ids set so far, in the order they were set
  \* getGlobalMappings and setGlobalMappings on their own
  heap,                    \* object reference -> per-document sub-map
  staticTable,             \* AgdaDocsIndexer.globalPositionMappings: file -> reference
  callerTable,             \* the table object a caller holds: file -> reference
  workerTable,             \* workerData.globalMappings in a worker: file -> reference
  \* the lines of one document on their way through the indexer, the
  \* transformer and the search index
  markup,                  \* the innerHTML of each pre.Agda block, as generated
  linePc,                  \* start, indexed, wrapped, extracted
  indexedLines,            \* the code lines of each block in the indexer's DOM
  lineMappings,            \* the sub-map the indexer records for the document
  wrappedLines,            \* the code lines of each block in the transformed document
  lineEntries              \* the search entries of the transformed document

\* the state of the run of the command line that follows the transformation
runVars == << unwritable, writeFails, searchIndex, artifact >>

persistVars == << persistIndex, persistPc, stack, written, manifest >>

wrapVars == << regions, wrapNext, assigned >>

copyVars == << heap, staticTable, callerTable, workerTable >>

lineVars ==
  << markup, linePc, indexedLines, lineMappings, wrappedLines, lineEntries >>

\* the state of the operations that are studied on their own
apartVars == << persistVars, wrapVars, copyVars, lineVars >>

vars ==
  << files, content, unreadable, mode, globalPositionMappings, indexPc, indexI,
     processedCount, cliPc, batchStart, units, output, lastRewrite, libPc,
     progress, runVars, apartVars >>

EmptyTable == [f \in {} |-> EmptyMap]

NoRewrite ==
  [file |-> NoText, pass |-> 0, allMappings |-> EmptyTable, unmappedLinks |-> << >>,
   returned |-> << >>]

Listing(n) == [i \in 1..n |-> ListedFile(i)]

FileSet == {files[i] : i \in 1..Len(files)}

\* a search index: file name -> the entries of the document
EmptyIndex == [f \in {} |-> << >>]

NoIndex == [built |-> FALSE, index |-> EmptyIndex]

NoArtifact == [written |-> FALSE, index |-> EmptyIndex]

\* every file can be written, and no search index exists yet
RunIdle ==
  /\ unwritable = {}
  /\ writeFails = FALSE
  /\ searchIndex = NoIndex
  /\ artifact = NoArtifact

NoManifest == [present |-> FALSE, chunks |-> << >>, totalFiles |-> 0, totalEntries |-> 0]

PersistIdle ==
  /\ persistIndex = << >>
  /\ persistPc = "idle"
  /\ stack = << >>
  /\ written = << >>
  /\ manifest = NoManifest

WrapIdle ==
  /\ regions = << >>
  /\ wrapNext = 1
  /\ assigned = << >>

CopyIdle ==
  /\ heap = << >>
  /\ staticTable = << >>
  /\ callerTable = << >>
  /\ workerTable = << >>

LinesIdle ==
  /\ markup = << >>
  /\ linePc = "start"
  /\ indexedLines = << >>
  /\ lineMappings = << >>
  /\ wrappedLines = << >>
  /\ lineEntries = << >>

\* the inputs: the document under test in a directory of three files, or a
\* directory of up to MaxFiles files of which some cannot be read
Init ==
  /\ \/ /\ files = Listing(3)
        /\ \E rich \in RichDocs :
             content = [f \in {ListedFile(i) : i \in 1..3} |-> FileContent(f, rich)]
        /\ unreadable = {}
        /\ mode = "cli"
     \/ \E n \in 1..MaxFiles :
          /\ files = Listing(n)
          /\ content = [f \in {ListedFile(i) : i \in 1..n} |-> FileContent(f, ConsumerDoc)]
          /\ \/ unreadable = {}
             \/ \E i \in 1..n : unreadable = {ListedFile(i)}
             \/ n = 3 /\ \E i \in 1..3 : unreadable = {ListedFile(j) : j \in (1..3) \ {i}}
          /\ mode \in {"cli", "lib"}
  /\ globalPositionMappings = EmptyTable
  /\ indexPc = "idle"
  /\ indexI = 1
  /\ processedCount = 0
  /\ cliPc = "start"
  /\ batchStart = 1
  /\ units = << >>
  /\ output = [f \in {} |-> ConsumerDoc]
  /\ lastRewrite = NoRewrite
  /\ libPc = "start"
  /\ progress = << >>
  /\ RunIdle
  /\ PersistIdle
  /\ WrapIdle
  /\ CopyIdle
  /\ LinesIdle

(***************************************************************************)
(* buildPositionMappings (indexer.ts:267-340).                             *)
(***************************************************************************)
\* indexer.ts:283-336  where the loops stand after file number i of n: the
\* function returns after the last file, and awaits a 50 ms timer after a
\* full batch when files remain
NextIndexPc(i, n) ==
  IF i >= n THEN "done"
  ELSE IF i % IndexBatchSize = 0 THEN "sleeping"
  ELSE "running"

\* indexer.ts:321-329  the catch inside the loop: the error is logged and
\* the loop goes on from where it stands
OnFileError_Abort(pcNext) == "done"

OnFileError(pcNext) == pcNext

\* indexer.ts:271-277  the call: the table is reset and the loop starts
StartIndexing ==
  /\ globalPositionMappings' = EmptyTable
  /\ indexPc' = "running"
  /\ indexI' = 1
  /\ processedCount' = 0
  /\ progress' = << >>

\* indexer.ts:287-330  one iteration of the loop over the files
IndexFile ==
  /\ indexPc = "running"
  /\ indexI <= Len(files)
  /\ LET file == files[indexI]
         pcNext == NextIndexPc(indexI, Len(files))
     IN IF file \notin unreadable
        THEN /\ globalPositionMappings' =
                  (file :> IndexDocument(content[file])) @@ globalPositionMappings
             /\ processedCount' = processedCount + 1
             /\ progress' = Append(progress, << processedCount + 1, Len(files) >>)
             /\ indexPc' = pcNext
        ELSE /\ UNCHANGED << globalPositionMappings, processedCount, progress >>
             /\ indexPc' = OnFileError(pcNext)
  /\ indexI' = indexI + 1
  /\ UNCHANGED << runVars, apartVars, 
                  files, content, unreadable, mode, cliPc, batchStart, units, output,
                  lastRewrite, libPc >>

\* indexer.ts:334  the 50 ms timer fires; a timer never fires while the code
\* that called buildPositionMappings is still running
IndexWake ==
  /\ indexPc = "sleeping"
  /\ mode = "lib" => libPc = "transformed"
  /\ indexPc' = "running"
  /\ UNCHANGED << runVars, apartVars, progress, 
                  files, content, unreadable, mode, globalPositionMappings, indexI,
                  processedCount, cliPc, batchStart, units, output, lastRewrite, libPc >>

(***************************************************************************)
(* AgdaDocsTransformer.transform (types.ts:58-70).                         *)
(***************************************************************************)
\* types.ts:48-70  setContent(content, file) and transform(), the static
\* table of the thread being `table`: addLineNumbersToCodeBlocks gives the
\* blocks the ids B1, B2, ... in document order, then transformAgdaLinks
\* reads a copy of the table (types.ts:107)
LineWrapped(doc) == [doc EXCEPT !.wrapped = TRUE]

Transform(doc, file, table) == transformAgdaLinks(LineWrapped(doc), file, CopyTable(table))

RewriteRecord(file, pass, table, r) ==
  [file |-> file, pass |-> pass, allMappings |-> CopyTable(table),
   unmappedLinks |-> r.unmappedLinks, returned |-> r.returned]

(***************************************************************************)
(* The process action of the command line (cli.ts:293-386).                *)
(***************************************************************************)
\* cli.ts:341  the call of buildPositionMappings
CliBuild ==
  /\ mode = "cli"
  /\ cliPc = "start"
  /\ StartIndexing
  /\ cliPc' = "indexing"
  /\ UNCHANGED << runVars, apartVars, 
                  files, content, unreadable, mode, batchStart, units, output,
                  lastRewrite, libPc >>

\* cli.ts:341  `await`: the action goes on when the promise of
\* buildPositionMappings has resolved
IndexingSettled_NoAwait(pc) == pc \in {"sleeping", "done"}

IndexingSettled(pc) == pc = "done"

\* cli.ts:341-352  copyAssets, then processFilesInMemoryEfficientBatches starts
CliAwaitIndex ==
  /\ cliPc = "indexing"
  /\ IndexingSettled(indexPc)
  /\ cliPc' = "dispatch"
  /\ batchStart' = 1
  /\ UNCHANGED << runVars, apartVars, progress, 
                  files, content, unreadable, mode, globalPositionMappings, indexPc,
                  indexI, processedCount, units, output, lastRewrite, libPc >>

\* cli.ts:168  files.slice(i, i + batchSize), i being 0-based
BatchFiles_FromTop(start) ==
  SubSeq(files, 1,
         IF start + MEMORY_EFFICIENT_BATCH_SIZE - 1 <= Len(files)
         THEN start + MEMORY_EFFICIENT_BATCH_SIZE - 1 ELSE Len(files))

BatchFiles(start) ==
  SubSeq(files, start,
         IF start + MEMORY_EFFICIENT_BATCH_SIZE - 1 <= Len(files)
         THEN start + MEMORY_EFFICIENT_BATCH_SIZE - 1 ELSE Len(files))

\* the exit code of a worker that has not exited
NotExited == -1

\* cli.ts:110-127  processFileBatch: a worker is created with a copy of the
\* table as workerData; the worker sets it as its own static table (cli.ts:57)
Dispatch ==
  /\ cliPc = "dispatch"
  /\ batchStart <= Len(files)
  /\ units' = Append(units, [pc |-> "running", files |-> BatchFiles(batchStart),
                             next |-> 1,
                             mappings |-> CopyTable(CopyTable(globalPositionMappings)),
                             count |-> 0, errors |-> << >>, exit |-> NotExited])
  /\ cliPc' = "waiting"
  /\ UNCHANGED << runVars, apartVars, progress, 
                  files, content, unreadable, mode, globalPositionMappings, indexPc,
                  indexI, processedCount, batchStart, output, lastRewrite, libPc >>

\* cli.ts:83-89  the catch inside the worker's loop: the loop goes on with
\* the file after the one that failed
WorkerOnFileError_Abandon(next, len) == len + 1

WorkerOnFileError(next, len) == next + 1

\* cli.ts:62-90  what one iteration of the worker's loop does to the worker:
\* the file is counted, or its error is posted to the coordinator
\* ({type: 'error', file}), and the loop goes on
WorkerLoop(u) ==
  /\ units[u].pc = "running"
  /\ units[u].next <= Len(units[u].files)
  /\ LET file == units[u].files[units[u].next]
     IN units' = IF file \notin unreadable \cup unwritable
                 THEN [units EXCEPT ![u].next = @ + 1, ![u].count = @ + 1]
                 ELSE [units EXCEPT
                         ![u].next = WorkerOnFileError(@, Len(units[u].files)),
                         ![u].errors = Append(@, file)]

\* cli.ts:62-90  one iteration of the worker's loop over its files: read,
\* setContent, transform, write
WorkerFile(u) ==
  /\ WorkerLoop(u)
  /\ LET file == units[u].files[units[u].next]
     IN IF file \notin unreadable \cup unwritable
        THEN LET r == Transform(content[file], file, units[u].mappings)
             IN /\ output' = (file :> r.doc) @@ output
                /\ lastRewrite' = RewriteRecord(file, 1, units[u].mappings, r)
        ELSE UNCHANGED << output, lastRewrite >>
  /\ UNCHANGED << runVars, apartVars, progress, 
                  files, content, unreadable, mode, globalPositionMappings, indexPc,
                  indexI, processedCount, cliPc, batchStart, libPc >>

\* cli.ts:96-99  processBatch() resolved: the worker posts 'complete' and,
\* with nothing left to do, exits with code 0
WorkerComplete(u) ==
  /\ units[u].pc = "running"
  /\ units[u].next > Len(units[u].files)
  /\ units' = [units EXCEPT ![u].pc = "complete", ![u].exit = 0]
  /\ UNCHANGED << runVars, apartVars, progress, 
                  files, content, unreadable, mode, globalPositionMappings, indexPc,
                  indexI, processedCount, cliPc, batchStart, output, lastRewrite, libPc >>

\* cli.ts:135-137 and cli.ts:171-173  the 'complete' message resolves the
\* promise of processFileBatch
CliBatchDone_NoAwait ==
  /\ cliPc = "waiting"
  /\ units # << >>
  /\ cliPc' = "delay"
  /\ UNCHANGED << runVars, apartVars, progress,
                  files, content, unreadable, mode, globalPositionMappings, indexPc,
                  indexI, processedCount, batchStart, units, output, lastRewrite, libPc >>

CliBatchDone ==
  /\ cliPc = "waiting"
  /\ units # << >>
  /\ units[Len(units)].pc = "complete"
  /\ cliPc' = "delay"
  /\ UNCHANGED << runVars, apartVars, progress, 
                  files, content, unreadable, mode, globalPositionMappings, indexPc,
                  indexI, processedCount, batchStart, units, output, lastRewrite, libPc >>

\* cli.ts:176 and cli.ts:167  the 100 ms timer fires and the loop steps on
CliNextBatch ==
  /\ cliPc = "delay"
  /\ batchStart' = batchStart + MEMORY_EFFICIENT_BATCH_SIZE
  /\ cliPc' = IF batchStart + MEMORY_EFFICIENT_BATCH_SIZE <= Len(files)
              THEN "dispatch" ELSE "transformed"
  /\ UNCHANGED << runVars, apartVars, progress, 
                  files, content, unreadable, mode, globalPositionMappings, indexPc,
                  indexI, processedCount, units, output, lastRewrite, libPc >>

(***************************************************************************)
(* The process action as a whole: units that end abnormally, and the       *)
(* search index (cli.ts:129-181 and cli.ts:352-385).  The search index is  *)
(* short enough to be written whole.  No statement of the worker's         *)
(* processBatch outside its per-file try block can throw, so the worker    *)
(* never posts the error message of cli.ts:100-105.                        *)
(***************************************************************************)
\* an uncaught exception in the worker (require fails, the memory limit of
\* cli.ts:123-126 is exceeded): the worker emits 'error' and exits with 1
WorkerError(u) ==
  /\ units[u].pc = "running"
  /\ units' = [units EXCEPT ![u].pc = "errored", ![u].exit = 1]
  /\ UNCHANGED << runVars, apartVars, progress,
                  files, content, unreadable, mode, globalPositionMappings, indexPc,
                  indexI, processedCount, cliPc, batchStart, output, lastRewrite, libPc >>

\* the worker ends with a non-zero exit code and without an 'error' event
\* (process.exit(1) in the worker thread)
WorkerAbort(u) ==
  /\ units[u].pc = "running"
  /\ units' = [units EXCEPT ![u].pc = "exited", ![u].exit = 1]
  /\ UNCHANGED << runVars, apartVars, progress,
                  files, content, unreadable, mode, globalPositionMappings, indexPc,
                  indexI, processedCount, cliPc, batchStart, output, lastRewrite, libPc >>

\* cli.ts:147-151  worker.on('exit'): if (code !== 0) reject(...)
ExitRejects_Never(code) == FALSE

ExitRejects(code) == code # 0

\* cli.ts:141-151  the promise of processFileBatch is rejected: by the
\* 'error' event, or by the 'exit' event of a worker that exited
UnitRejected(unit) ==
  \/ unit.pc = "errored"
  \/ unit.pc # "complete" /\ unit.exit # NotExited /\ ExitRejects(unit.exit)

\* cli.ts:177-180 and cli.ts:378-385  the rejection is logged and thrown
\* again, the process action catches it and calls process.exit(1)
OnBatchRejected_Continue == "delay"

OnBatchRejected == "exit1"

\* cli.ts:171 and cli.ts:177-180  the await of processFileBatch throws
CliBatchFailed ==
  /\ cliPc = "waiting"
  /\ units # << >>
  /\ UnitRejected(units[Len(units)])
  /\ cliPc' = OnBatchRejected
  /\ UNCHANGED << runVars, apartVars, progress,
                  files, content, unreadable, mode, globalPositionMappings, indexPc,
                  indexI, processedCount, batchStart, units, output, lastRewrite, libPc >>

\* part_001:104-156  the code entries of a document: one for each code line
\* with an id "B<k>-LC<n>" and with text; the lines the model knows to have
\* text are those that hold an element with an id, and (blk, line) is the
\* line of the entry before
RECURSIVE CodeEntries(_, _, _)
CodeEntries(anchors, blk, line) ==
  IF anchors = << >> THEN << >>
  ELSE LET el == Head(anchors)
       IN IF el.blk = 0 \/ el.place # "line" \/ (el.blk = blk /\ el.line = line)
          THEN CodeEntries(Tail(anchors), blk, line)
          ELSE << [type |-> "code", content |-> "line", lineNumber |-> el.line] >>
                 \o CodeEntries(Tail(anchors), el.blk, el.line)

\* part_001:83-208  extractSearchEntriesFromFile: the module entry, then the
\* code entries; the ids of the elements of the code are made of digits, so
\* no identifier entry is made (part_001:162) and positionMappings is not read
extractSearchEntriesFromFile(doc, file, positionMappings) ==
  << [type |-> "module", content |-> file[1], lineNumber |-> 0] >>
    \o (IF doc.wrapped THEN CodeEntries(doc.anchors, 0, 0) ELSE << >>)

\* part_001:31-78  buildSearchIndex over the .html files of the directory
\* `dir`; every document has its module entry, so every file gets a key
buildSearchIndex(mappings, dir) ==
  [file \in DOMAIN dir |->
     extractSearchEntriesFromFile(dir[file], file, SubMap(mappings, file))]

\* cli.ts:363  the directory buildSearchIndex reads: outputDir; a file that
\* cannot be read gets no key (part_001:198-200 and part_001:56)
SearchDirectory_Input == [file \in FileSet \ unreadable |-> content[file]]

SearchDirectory == output

\* cli.ts:361-364  await buildSearchIndex(getGlobalMappings(), outputDir);
\* while it sleeps between its batches nothing else runs in the process
CliBuildSearchIndex ==
  /\ cliPc = "transformed"
  /\ searchIndex' =
       [built |-> TRUE,
        index |-> buildSearchIndex(CopyTable(globalPositionMappings), SearchDirectory)]
  /\ cliPc' = "indexed"
  /\ UNCHANGED << unwritable, writeFails, artifact, apartVars, progress,
                  files, content, unreadable, mode, globalPositionMappings, indexPc,
                  indexI, processedCount, batchStart, units, output, lastRewrite, libPc >>

\* cli.ts:366-385 and part_001:213-235  writeSearchIndex, then the action
\* returns; an error of the write is thrown again and ends in process.exit(1)
CliWriteSearchIndex ==
  /\ cliPc = "indexed"
  /\ IF writeFails
     THEN /\ cliPc' = "exit1"
          /\ UNCHANGED artifact
     ELSE /\ artifact' = [written |-> TRUE, index |-> searchIndex.index]
          /\ cliPc' = "exit0"
  /\ UNCHANGED << unwritable, writeFails, searchIndex, apartVars, progress,
                  files, content, unreadable, mode, globalPositionMappings, indexPc,
                  indexI, processedCount, batchStart, units, output, lastRewrite, libPc >>

\* the directory sizes of the runs: one to three files, and the sizes next
\* to a multiple of the unit's batch size
RunSizes ==
  {n \in 1..MaxFiles : n <= 3 \/ n % MEMORY_EFFICIENT_BATCH_SIZE \in {0, 1} \/ n = MaxFiles}

\* a directory in which at most one file cannot be read or cannot be
\* written, and a disk that takes the search index or not; the output
\* directory is a new directory, or it is the input directory (the default
\* of cli.ts:291-292), which holds the documents as generated
InitRun ==
  /\ \E n \in RunSizes :
       /\ files = Listing(n)
       /\ content = [f \in {ListedFile(i) : i \in 1..n} |-> FileContent(f, ConsumerDoc)]
       /\ \/ unreadable = {} /\ unwritable = {}
          \/ \E i \in 1..n : unreadable = {ListedFile(i)} /\ unwritable = {}
          \/ \E i \in 1..n : unreadable = {} /\ unwritable = {ListedFile(i)}
       /\ \/ output = [f \in {} |-> ConsumerDoc]
          \/ output = [f \in {ListedFile(i) : i \in 1..n} \ unreadable |-> content[f]]
  /\ writeFails \in BOOLEAN
  /\ mode = "cli"
  /\ globalPositionMappings = EmptyTable
  /\ indexPc = "idle"
  /\ indexI = 1
  /\ processedCount = 0
  /\ cliPc = "start"
  /\ batchStart = 1
  /\ units = << >>
  /\ lastRewrite = NoRewrite
  /\ libPc = "start"
  /\ progress = << >>
  /\ searchIndex = NoIndex
  /\ artifact = NoArtifact
  /\ PersistIdle
  /\ WrapIdle
  /\ CopyIdle
  /\ LinesIdle

NextRun ==
  \/ CliBuild
  \/ IndexFile
  \/ IndexWake
  \/ CliAwaitIndex
  \/ Dispatch
  \/ \E u \in 1..Len(units) : WorkerFile(u)
  \/ \E u \in 1..Len(units) : WorkerComplete(u)
  \/ \E u \in 1..Len(units) : WorkerError(u)
  \/ \E u \in 1..Len(units) : WorkerAbort(u)
  \/ CliBatchDone
  \/ CliBatchFailed
  \/ CliNextBatch
  \/ CliBuildSearchIndex
  \/ CliWriteSearchIndex

SpecRun == InitRun /\ [][NextRun]_vars

\* the steps of the main thread, and the end of a worker's loop
Scheduled ==
  \/ CliBuild
  \/ IndexFile
  \/ IndexWake
  \/ CliAwaitIndex
  \/ Dispatch
  \/ \E u \in 1..Len(units) : WorkerComplete(u)
  \/ CliBatchDone
  \/ CliBatchFailed
  \/ CliNextBatch
  \/ CliBuildSearchIndex
  \/ CliWriteSearchIndex

\* the event loop runs a handler that is ready and a timer fires, and a
\* worker thread that has a file left goes on with its loop; nothing makes
\* a worker end abnormally
FairRun ==
  /\ SpecRun
  /\ WF_vars(Scheduled)
  /\ WF_units(\E u \in 1..Len(units) : WorkerLoop(u))

(***************************************************************************)
(* Programmatic usage (README.md:250-271).                                 *)
(***************************************************************************)
\* README.md:263  AgdaDocsIndexer.buildPositionMappings('path/to/html'),
\* not awaited
LibBuild ==
  /\ mode = "lib"
  /\ libPc = "start"
  /\ StartIndexing
  /\ libPc' = "called"
  /\ UNCHANGED << runVars, apartVars, 
                  files, content, unreadable, mode, cliPc, batchStart, units, output,
                  lastRewrite >>

\* README.md:266-268  setContent(htmlContent, file) and transform(), in the
\* statements that follow the call: they run as soon as the call returns,
\* that is when buildPositionMappings has ended or reached its first await
LibTransform(file) ==
  /\ mode = "lib"
  /\ libPc = "called"
  /\ indexPc \in {"sleeping", "done"}
  /\ LET r == Transform(content[file], file, globalPositionMappings)
     IN /\ output' = (file :> r.doc) @@ output
        /\ lastRewrite' = RewriteRecord(file, 1, globalPositionMappings, r)
  /\ libPc' = "transformed"
  /\ UNCHANGED << runVars, apartVars, progress, 
                  files, content, unreadable, mode, globalPositionMappings, indexPc,
                  indexI, processedCount, cliPc, batchStart, units >>

(***************************************************************************)
(* The link rewriter run once more over the document it has rewritten.     *)
(***************************************************************************)
\* the static table of the thread that ran the latest rewrite
CurrentTable ==
  IF mode = "lib" THEN globalPositionMappings
  ELSE lastRewrite.allMappings

\* types.ts:100-187  transformAgdaLinks again, on the transformer's document
RewriteAgain ==
  /\ lastRewrite.pass >= 1
  /\ lastRewrite.pass < MaxPasses
  /\ LET file == lastRewrite.file
         r == transformAgdaLinks(output[file], file, CopyTable(CurrentTable))
     IN /\ output' = [output EXCEPT ![file] = r.doc]
        /\ lastRewrite' = RewriteRecord(file, lastRewrite.pass + 1, CurrentTable, r)
  /\ UNCHANGED << runVars, apartVars, progress, 
                  files, content, unreadable, mode, globalPositionMappings, indexPc,
                  indexI, processedCount, cliPc, batchStart, units, libPc >>

Next ==
  \/ CliBuild
  \/ LibBuild
  \/ IndexFile
  \/ IndexWake
  \/ CliAwaitIndex
  \/ Dispatch
  \/ \E u \in 1..Len(units) : WorkerFile(u)
  \/ \E u \in 1..Len(units) : WorkerComplete(u)
  \/ CliBatchDone
  \/ CliNextBatch
  \/ \E file \in FileSet : LibTransform(file)
  \/ RewriteAgain

Spec == Init /\ [][Next]_vars

(***************************************************************************)
(* The operations that are studied on their own start from a state in      *)
(* which no directory is being processed.                                  *)
(***************************************************************************)
NoDirectory ==
  /\ files = << >>
  /\ content = [f \in {} |-> ConsumerDoc]
  /\ unreadable = {}
  /\ mode = "cli"
  /\ globalPositionMappings = EmptyTable
  /\ indexPc = "idle"
  /\ indexI = 1
  /\ processedCount = 0
  /\ cliPc = "start"
  /\ batchStart = 1
  /\ units = << >>
  /\ output = [f \in {} |-> ConsumerDoc]
  /\ lastRewrite = NoRewrite
  /\ libPc = "start"
  /\ progress = << >>
  /\ RunIdle

directoryVars ==
  << files, content, unreadable, mode, globalPositionMappings, indexPc, indexI,
     processedCount, cliPc, batchStart, units, output, lastRewrite, libPc,
     progress, runVars >>

(***************************************************************************)
(* AgdaDocsSearcher.writeSearchIndex and writeChunkedSearchIndex           *)
(* (src/unnamed/part_001:213-310).                                         *)
(*                                                                         *)
(* An index is the sequence of its documents in key order, each with its   *)
(* entry list; an entry list is known by its length n and by the length    *)
(* `bytes` of its JSON text.  A chunk name "chunk-1-0" is the sequence of   *)
(* its numbers, <<1, 0>>.                                                  *)
(***************************************************************************)
\* the longest string JSON.stringify can return, in the unit of `bytes`
StringLimit == 3
\* most documents of an index
MaxDocs == 3
\* the deepest nesting of calls the engine's stack allows
MaxStack == 3
\* part_001:248  const maxEntriesPerChunk = 1000
maxEntriesPerChunk == 1000

\* the entry lists of the model: some that fit a chunk together, one that
\* fills a chunk of its own, and one whose text alone is too long
EntryLists ==
  { [n |-> 400, bytes |-> 2], [n |-> 600, bytes |-> 2], [n |-> 1200, bytes |-> 2],
    [n |-> 400, bytes |-> StringLimit + 1] }

IndexDoc(file, entries) == [file |-> file, entries |-> entries]

\* the indexes of up to MaxDocs documents, the i-th being of the i-th file
Indexes ==
  UNION { { [i \in 1..k |-> IndexDoc(ListedFile(i), e[i])] : e \in [1..k -> EntryLists] } :
          k \in 1..MaxDocs }

RECURSIVE SumOf(_, _)
SumOf(index, field) ==
  IF index = << >> THEN 0
  ELSE (IF field = "n" THEN Head(index).entries.n ELSE Head(index).entries.bytes)
         + SumOf(Tail(index), field)

\* part_001:280  the entries of the whole index
TotalEntries(index) == SumOf(index, "n")

\* part_001:220 and part_001:290  JSON.stringify throws "Invalid string
\* length" when the text would be longer than the engine allows
StringifyThrows(index) == SumOf(index, "bytes") > StringLimit

\* part_001:255-264  the inner while loop: the documents of one chunk,
\* taken from position i of the index
RECURSIVE TakeChunk_Uncapped(_, _, _, _)
TakeChunk_Uncapped(index, i, entriesCount, chunkFiles) ==
  IF ~(i <= Len(index) /\ entriesCount < maxEntriesPerChunk) THEN chunkFiles
  ELSE TakeChunk_Uncapped(index, i + 1, entriesCount + index[i].entries.n,
                          Append(chunkFiles, index[i].file))

RECURSIVE TakeChunk(_, _, _, _)
TakeChunk(index, i, entriesCount, chunkFiles) ==
  IF ~(i <= Len(index) /\ entriesCount < maxEntriesPerChunk) THEN chunkFiles
  ELSE LET fileEntries == index[i].entries
       IN IF entriesCount + fileEntries.n > maxEntriesPerChunk /\ chunkFiles # << >>
          THEN chunkFiles
          ELSE TakeChunk(index, i + 1, entriesCount + fileEntries.n,
                         Append(chunkFiles, index[i].file))

\* part_001:257 and part_001:267  index[file]
EntriesOf(index, file) ==
  (CHOOSE d \in {index[j] : j \in 1..Len(index)} : d.file = file).entries

\* part_001:269  `${chunkPrefix}-${chunkIndex}`
ChunkName(chunkPrefix, chunkIndex) == Append(chunkPrefix, chunkIndex)

\* part_001:252-271  the chunks of the index from position i on, the next
\* chunk being number chunkIndex
RECURSIVE ChunksFrom(_, _, _, _)
ChunksFrom(index, i, chunkIndex, chunkPrefix) ==
  IF ~(i <= Len(index)) THEN << >>
  ELSE LET chunkFiles == TakeChunk(index, i, 0, << >>)
           chunk == [j \in 1..Len(chunkFiles) |->
                       IndexDoc(chunkFiles[j], EntriesOf(index, chunkFiles[j]))]
       IN << [name |-> ChunkName(chunkPrefix, chunkIndex), chunk |-> chunk] >>
            \o ChunksFrom(index, i + Len(chunkFiles), chunkIndex + 1, chunkPrefix)

\* part_001:275-281  the metadata of one call
Metadata(index, chunks) ==
  [present |-> TRUE,
   chunks |-> [j \in 1..Len(chunks) |-> chunks[j].name],
   totalFiles |-> Len(index),
   totalEntries |-> TotalEntries(index)]

\* part_001:247-271  a call of writeChunkedSearchIndex up to its write loop
Frame(index, chunkPrefix) ==
  [index |-> index, prefix |-> chunkPrefix,
   chunks |-> ChunksFrom(index, 1, 0, chunkPrefix), next |-> 1]

\* the default chunkPrefix 'chunk' (part_001:244)
TopPrefix == << >>

\* the name of search-index.json among the written files
WholeName == << -1 >>

InitPersist ==
  /\ NoDirectory
  /\ WrapIdle
  /\ CopyIdle
  /\ LinesIdle
  /\ persistIndex \in Indexes
  /\ persistPc = "start"
  /\ stack = << >>
  /\ written = << >>
  /\ manifest = NoManifest

\* part_001:213-230 and part_001:247-283  writeSearchIndex: the index is
\* written whole, or writeChunkedSearchIndex is called, which cuts the index
\* into chunks and writes the metadata
WriteSearchIndex ==
  /\ persistPc = "start"
  /\ IF ~StringifyThrows(persistIndex)
     THEN /\ written' = Append(written, [name |-> WholeName, content |-> persistIndex])
          /\ persistPc' = "done"
          /\ UNCHANGED << stack, manifest >>
     ELSE LET frame == Frame(persistIndex, TopPrefix)
          IN /\ stack' = << frame >>
             /\ manifest' = Metadata(frame.index, frame.chunks)
             /\ persistPc' = "chunking"
             /\ UNCHANGED written
  /\ UNCHANGED << persistIndex, directoryVars, lineVars, wrapVars, copyVars >>

Top == stack[Len(stack)]

NextChunk == Top.chunks[Top.next]

Writing ==
  /\ persistPc = "chunking"
  /\ stack # << >>
  /\ Top.next <= Len(Top.chunks)

\* part_001:286-302  one turn of the write loop: the chunk is written
WriteChunk ==
  /\ Writing
  /\ ~StringifyThrows(NextChunk.chunk)
  /\ written' = Append(written, [name |-> NextChunk.name, content |-> NextChunk.chunk])
  /\ stack' = [stack EXCEPT ![Len(stack)].next = @ + 1]
  /\ UNCHANGED << persistIndex, persistPc, manifest, directoryVars, lineVars, wrapVars, copyVars >>

\* part_001:291-297 and part_001:247-283  one turn of the write loop: the
\* chunk is too long, and writeChunkedSearchIndex is called on it with the
\* chunk's name as the prefix; the call cuts it and writes the metadata
SplitFurther ==
  /\ Writing
  /\ StringifyThrows(NextChunk.chunk)
  /\ Len(stack) < MaxStack
  /\ LET frame == Frame(NextChunk.chunk, NextChunk.name)
     IN /\ stack' = Append([stack EXCEPT ![Len(stack)].next = @ + 1], frame)
        /\ manifest' = Metadata(frame.index, frame.chunks)
  /\ UNCHANGED << persistIndex, persistPc, written, directoryVars, lineVars, wrapVars, copyVars >>

\* the call of part_001:296 finds no room on the stack: the engine throws
\* "Maximum call stack size exceeded", which every frame rethrows
\* (part_001:306-309), as does writeSearchIndex (part_001:231-234)
StackExhausted ==
  /\ Writing
  /\ StringifyThrows(NextChunk.chunk)
  /\ Len(stack) >= MaxStack
  /\ stack' = << >>
  /\ persistPc' = "thrown"
  /\ UNCHANGED << persistIndex, written, manifest, directoryVars, lineVars, wrapVars, copyVars >>

\* part_001:303-305  the write loop has ended and the call returns
ChunkedReturn ==
  /\ persistPc = "chunking"
  /\ stack # << >>
  /\ Top.next > Len(Top.chunks)
  /\ stack' = SubSeq(stack, 1, Len(stack) - 1)
  /\ persistPc' = IF Len(stack) = 1 THEN "done" ELSE "chunking"
  /\ UNCHANGED << persistIndex, written, manifest, directoryVars, lineVars, wrapVars, copyVars >>

NextPersist ==
  \/ WriteSearchIndex
  \/ WriteChunk
  \/ SplitFurther
  \/ StackExhausted
  \/ ChunkedReturn

SpecPersist == InitPersist /\ [][NextPersist]_vars

(***************************************************************************)
(* AgdaDocsIndexer.getGlobalMappings and setGlobalMappings                 *)
(* (src/src/indexer.ts:250-260), and the table handed to a worker          *)
(* (src/src/cli.ts:110-121).                                               *)
(*                                                                         *)
(* A table is an object whose values are references to sub-map objects.    *)
(* { ...table } makes a new object with the same keys and the same         *)
(* references.  workerData is copied by the structured clone algorithm,    *)
(* which copies the sub-maps too: the worker's table is a value of its     *)
(* own.                                                                    *)
(***************************************************************************)
CopyFiles == {ListedFile(1), ListedFile(2)}

CopyPositions == {42}

CopyLines == {1, 2}

\* the sub-maps: some of the positions, each with a line
SubMaps ==
  UNION {[ps -> CopyLines] : ps \in SUBSET CopyPositions}

\* a table and a caller's table have at most one sub-map for each file
Refs == 1..(2 * Cardinality(CopyFiles))

\* the table an object graph holds: file -> position -> line
Deref(h, table) == [f \in DOMAIN table |-> h[table[f]]]

\* the objects some table still refers to
Collect(h, tables) ==
  [r \in {x \in DOMAIN h : \E t \in tables : \E f \in DOMAIN t : t[f] = x} |-> h[r]]

\* types.ts:107-110  the line a link to (file, position) resolves to, 0 for
\* none
Resolved(file, position) ==
  IF file \in DOMAIN staticTable /\ Mapped(heap[staticTable[file]], position)
  THEN heap[staticTable[file]][position]
  ELSE 0

\* the table as buildPositionMappings left it (indexer.ts:314), and a caller
\* with an empty table of their own
InitCopy ==
  /\ NoDirectory
  /\ PersistIdle
  /\ WrapIdle
  /\ LinesIdle
  /\ \E m1 \in SubMaps, m2 \in SubMaps :
       heap = (1 :> m1) @@ (2 :> m2)
  /\ staticTable = (ListedFile(1) :> 1) @@ (ListedFile(2) :> 2)
  /\ callerTable = << >>
  /\ workerTable = << >>

\* indexer.ts:250-252  the caller takes getGlobalMappings()
GetGlobalMappings ==
  /\ callerTable' = CopyTable(staticTable)
  /\ heap' = Collect(heap, {staticTable})
  /\ UNCHANGED << staticTable, workerTable, directoryVars, lineVars, persistVars, wrapVars >>

\* indexer.ts:258-260  the caller passes their table to setGlobalMappings
SetGlobalMappings ==
  /\ staticTable' = CopyTable(callerTable)
  /\ heap' = Collect(heap, {callerTable})
  /\ UNCHANGED << callerTable, workerTable, directoryVars, lineVars, persistVars, wrapVars >>

\* table[file] = { ... }: the caller adds a document key to their table
CallerAddKey(file, m) ==
  /\ file \notin DOMAIN callerTable
  /\ LET r == CHOOSE x \in Refs : x \notin DOMAIN heap
     IN /\ heap' = heap @@ (r :> m)
        /\ callerTable' = callerTable @@ (file :> r)
  /\ UNCHANGED << staticTable, workerTable, directoryVars, lineVars, persistVars, wrapVars >>

\* delete table[file]: the caller removes a document key from their table
CallerRemoveKey(file) ==
  /\ file \in DOMAIN callerTable
  /\ LET t == [f \in DOMAIN callerTable \ {file} |-> callerTable[f]]
     IN /\ callerTable' = t
        /\ heap' = Collect(heap, {t, staticTable})
  /\ UNCHANGED << staticTable, workerTable, directoryVars, lineVars, persistVars, wrapVars >>

\* table[file][position] = line: the caller changes an entry of a sub-map
CallerSetEntry(file, position, line) ==
  /\ file \in DOMAIN callerTable
  /\ LET r == callerTable[file]
         m == heap[r]
     IN /\ ~(position \in DOMAIN m /\ m[position] = line)
        /\ heap' = [heap EXCEPT ![r] = [p \in DOMAIN m \cup {position} |->
                                         IF p = position THEN line ELSE m[p]]]
  /\ UNCHANGED << staticTable, callerTable, workerTable, directoryVars, lineVars,
                  persistVars, wrapVars >>

\* cli.ts:111-121 and cli.ts:53-57  a worker is created with
\* getGlobalMappings() as workerData, which it receives as a clone
PostToWorker ==
  /\ workerTable' = Deref(heap, CopyTable(staticTable))
  /\ UNCHANGED << heap, staticTable, callerTable, directoryVars, lineVars, persistVars,
                  wrapVars >>

\* the worker changes an entry of a sub-map of its table
WorkerSetEntry(file, position, line) ==
  /\ file \in DOMAIN workerTable
  /\ ~(position \in DOMAIN workerTable[file] /\ workerTable[file][position] = line)
  /\ workerTable' = [workerTable EXCEPT ![file] =
                       [p \in DOMAIN @ \cup {position} |->
                          IF p = position THEN line ELSE @[p]]]
  /\ UNCHANGED << heap, staticTable, callerTable, directoryVars, lineVars, persistVars,
                  wrapVars >>

CallerMutates ==
  \/ \E file \in CopyFiles, m \in SubMaps : CallerAddKey(file, m)
  \/ \E file \in CopyFiles : CallerRemoveKey(file)
  \/ \E file \in CopyFiles, position \in CopyPositions, line \in CopyLines :
       CallerSetEntry(file, position, line)

NextCopy ==
  \/ GetGlobalMappings
  \/ SetGlobalMappings
  \/ \E file \in CopyFiles, m \in SubMaps : CallerAddKey(file, m)
  \/ \E file \in CopyFiles : CallerRemoveKey(file)
  \/ \E file \in CopyFiles, position \in CopyPositions, line \in CopyLines :
       CallerSetEntry(file, position, line)
  \/ PostToWorker
  \/ \E file \in CopyFiles, position \in CopyPositions, line \in CopyLines :
       WorkerSetEntry(file, position, line)

SpecCopy == InitCopy /\ [][NextCopy]_vars

(***************************************************************************)
(* AgdaDocsTransformer.addLineNumbersToCodeBlocks (src/src/types.ts:232-   *)
(* 317) on a document as Agda generates it.                                *)
(*                                                                         *)
(* A region is a pre.Agda block, known by the number of pieces             *)
(* innerHTML.split('\n') cuts it into and by whether the last piece is     *)
(* blank.  An id is the sequence of its characters.                        *)
(***************************************************************************)
\* most pre.Agda blocks of a document
MaxBlocks == 11
\* most pieces of a block
MaxLines == 11

DigitChar(d) == << "0", "1", "2", "3", "4", "5", "6", "7", "8", "9" >>[d + 1]

\* `${n}`: the decimal text of a number
RECURSIVE Decimal(_)
Decimal(n) ==
  IF n < 10 THEN << DigitChar(n) >> ELSE Decimal(n \div 10) \o << DigitChar(n % 10) >>

\* types.ts:239  `B${blockIndex + 1}`
BlockId(blockIndex) == << "B" >> \o Decimal(blockIndex + 1)

\* types.ts:270  `${blockId}-L${lineNum}`
LineId_NoBlock(blockId, lineNum) == << "L" >> \o Decimal(lineNum)

LineId(blockId, lineNum) == blockId \o << "-", "L" >> \o Decimal(lineNum)

\* types.ts:271  `${blockId}-LC${lineNum}`
LineContentId(blockId, lineNum) == blockId \o << "-", "L", "C" >> \o Decimal(lineNum)

\* types.ts:262-264  the number of lines left when a blank last piece is
\* dropped
ActualLines(region) ==
  IF region.lastBlank THEN region.pieces - 1 ELSE region.pieces

Shapes ==
  [pieces : {1, 2, MaxLines}, lastBlank : BOOLEAN]

\* a document of up to MaxBlocks regions; the regions at odd places have one
\* shape and those at even places another
InitWrap ==
  /\ NoDirectory
  /\ PersistIdle
  /\ CopyIdle
  /\ LinesIdle
  /\ \E n \in 1..MaxBlocks, odd \in Shapes, even \in Shapes :
       regions = [k \in 1..n |-> IF k % 2 = 1 THEN odd ELSE even]
  /\ wrapNext = 1
  /\ assigned = << >>

\* types.ts:237-310  one call of the function given to codeBlocks.forEach:
\* the block gets its id, every line its number anchor and its content div
WrapBlock ==
  /\ wrapNext <= Len(regions)
  /\ LET blockIndex == wrapNext - 1
         blockId == BlockId(blockIndex)
         count == ActualLines(regions[wrapNext])
     IN assigned' = assigned
          \o << [kind |-> "block", block |-> wrapNext, line |-> 0, id |-> blockId] >>
          \o [index \in 1..count |->
                [kind |-> "line", block |-> wrapNext, line |-> index,
                 id |-> LineId(blockId, index)]]
          \o [index \in 1..count |->
                [kind |-> "content", block |-> wrapNext, line |-> index,
                 id |-> LineContentId(blockId, index)]]
  /\ wrapNext' = wrapNext + 1
  /\ UNCHANGED << regions, directoryVars, lineVars, persistVars, copyVars >>

NextWrap == WrapBlock

SpecWrap == InitWrap /\ [][NextWrap]_vars

(***************************************************************************)
(* The lines of one document on their way through the indexer              *)
(* (src/src/indexer.ts:295-314 and 346-388), the transformer               *)
(* (src/src/types.ts:251-281) and the search index                         *)
(* (src/unnamed/part_001:105-182).                                         *)
(*                                                                         *)
(* The innerHTML of a pre.Agda block is a sequence of characters: "a" is   *)
(* an element with text and an id made of digits, "n" an element with text *)
(* and an id that is a name, " " a space and "nl" a newline.  No element   *)
(* spans two lines.  The generator numbers the elements with a digit id in *)
(* document order: the p-th of them has the id p.  A code line of a        *)
(* wrapped block is its id and its content, where "nbsp" is the            *)
(* non-breaking space.  The document that the search index reads is the    *)
(* one the transformer wrote.                                              *)
(***************************************************************************)
\* longest innerHTML of a block
MaxMarkup == 6

MarkupChars == {"a", "n", " ", "nl"}

Markups(maxLen) == UNION {[1..n -> MarkupChars] : n \in 0..maxLen}

\* documents of one block, and documents of two short blocks
LineDocs ==
  {<< m >> : m \in Markups(MaxMarkup)}
    \cup {<< m[1], m[2] >> : m \in Markups(2) \X Markups(2)}

\* String.prototype.split('\n')
RECURSIVE SplitFrom(_, _)
SplitFrom(s, segment) ==
  IF s = << >> THEN << segment >>
  ELSE IF Head(s) = "nl" THEN << segment >> \o SplitFrom(Tail(s), << >>)
  ELSE SplitFrom(Tail(s), Append(segment, Head(s)))

Split(s) == SplitFrom(s, << >>)

\* String.prototype.trim(): white space, the non-breaking space included, is
\* removed at both ends
WhiteSpace == {" ", "nbsp", "nl"}

RECURSIVE TrimStart(_)
TrimStart(s) ==
  IF s # << >> /\ Head(s) \in WhiteSpace THEN TrimStart(Tail(s)) ELSE s

RECURSIVE TrimEnd(_)
TrimEnd(s) ==
  IF s # << >> /\ s[Len(s)] \in WhiteSpace THEN TrimEnd(SubSeq(s, 1, Len(s) - 1)) ELSE s

Trim(s) == TrimEnd(TrimStart(s))

\* Array.prototype.filter: the elements whose index is not in `dropped`
RECURSIVE KeepFrom(_, _, _)
KeepFrom(lines, dropped, index) ==
  IF index > Len(lines) THEN << >>
  ELSE (IF index \in dropped THEN << >> ELSE << lines[index] >>)
         \o KeepFrom(lines, dropped, index + 1)

\* indexer.ts:370-372  the filter of the indexer: whether the segment at
\* `index` (1-based) is left out
IndexerDrops_EveryBlank(lines, index) == Trim(lines[index]) = << >>

IndexerDrops(lines, index) == index = Len(lines) /\ Trim(lines[index]) = << >>

\* types.ts:262-264  the filter of the transformer
TransformerDrops_Never(lines, index) == FALSE

TransformerDrops(lines, index) == index = Len(lines) /\ Trim(lines[index]) = << >>

\* indexer.ts:378 and types.ts:279  a blank line is rendered as &nbsp;
LineContent(line) == IF Trim(line) = << >> THEN << "nbsp" >> ELSE line

\* indexer.ts:352  `block-${blockIndex + 1}`
IndexerBlockId(blockIndex) == << "b", "l", "o", "c", "k", "-" >> \o Decimal(blockIndex + 1)

\* indexer.ts:362-386  the code lines of a block in the indexer's DOM
IndexerCodeLines(blockIndex, innerHTML) ==
  LET lines == Split(innerHTML)
      actualLines ==
        KeepFrom(lines, {i \in 1..Len(lines) : IndexerDrops(lines, i)}, 1)
  IN [lineNum \in 1..Len(actualLines) |->
        [id |-> LineContentId(IndexerBlockId(blockIndex), lineNum),
         content |-> LineContent(actualLines[lineNum])]]

\* types.ts:251-281  the code lines of a block in the transformed document
TransformerCodeLines(blockIndex, innerHTML) ==
  LET lines == Split(innerHTML)
      actualLines ==
        KeepFrom(lines, {i \in 1..Len(lines) : TransformerDrops(lines, i)}, 1)
  IN [lineNum \in 1..Len(actualLines) |->
        [id |-> LineContentId(BlockId(blockIndex), lineNum),
         content |-> LineContent(actualLines[lineNum])]]

RECURSIVE Flatten(_)
Flatten(seqs) == IF seqs = << >> THEN << >> ELSE Head(seqs) \o Flatten(Tail(seqs))

IsDigitId(char) == char = "a"

IsNameId(char) == char = "n"

\* indexer.ts:302  querySelectorAll('[id]'), of which the elements with a
\* digit id: the block and the code line of each, in document order
DigitIdPlaces(blocks) ==
  Flatten([k \in 1..Len(blocks) |->
    Flatten([i \in 1..Len(blocks[k]) |->
      [c \in 1..Len(SelectSeq(blocks[k][i].content, IsDigitId)) |->
         [blk |-> k, line |-> i, place |-> "line"]]])])

\* indexer.ts:302-314  the sub-map of the document: id -> line number
IndexLines(blocks) ==
  LET places == DigitIdPlaces(blocks)
  IN ScanAnchors([p \in 1..Len(places) |->
                    [id |-> p, blk |-> places[p].blk, line |-> places[p].line,
                     place |-> places[p].place]],
                 EmptyMap)

\* part_001:117-123  lineId.match(/B\d+-LC(\d+)/) and parseInt: the number
\* after "-LC", 0 if the id has no such part
DigitValue(char) == CHOOSE d \in 0..9 : DigitChar(d) = char

RECURSIVE DecimalValue(_)
DecimalValue(digits) ==
  IF digits = << >> THEN 0
  ELSE 10 * DecimalValue(SubSeq(digits, 1, Len(digits) - 1)) + DigitValue(digits[Len(digits)])

IsDigit(char) == \E d \in 0..9 : DigitChar(d) = char

ParseLineNumber(lineId) ==
  LET starts == {c \in 3..(Len(lineId) - 1) :
                   /\ lineId[c - 2] = "-" /\ lineId[c - 1] = "L" /\ lineId[c] = "C"
                   /\ IsDigit(lineId[c + 1])
                   /\ \E b \in 1..(c - 3) :
                        /\ lineId[b] = "B"
                        /\ b + 1 <= c - 3
                        /\ \A d \in (b + 1)..(c - 3) : IsDigit(lineId[d])}
  IN IF starts = {} THEN 0
     ELSE LET c == CHOOSE x \in starts : \A y \in starts : x <= y
              end == CHOOSE e \in (c + 1)..Len(lineId) :
                       /\ \A d \in (c + 1)..e : IsDigit(lineId[d])
                       /\ e = Len(lineId) \/ ~IsDigit(lineId[e + 1])
          IN DecimalValue(SubSeq(lineId, c + 1, end))

\* part_001:126  line.textContent?.trim()
TextOf(line) == Trim(line.content)

\* Array.prototype.join('\n')
RECURSIVE JoinLines(_)
JoinLines(texts) ==
  IF texts = << >> THEN << >>
  ELSE IF Len(texts) = 1 THEN texts[1]
  ELSE texts[1] \o << "nl" >> \o JoinLines(Tail(texts))

\* part_001:131-146  the context of the line at `index` (1-based) of allLines
ContextOf_Unfiltered(allLines, index) ==
  JoinLines(<< IF index > 1 THEN TextOf(allLines[index - 1]) ELSE << >>,
               TextOf(allLines[index]),
               IF index < Len(allLines) THEN TextOf(allLines[index + 1]) ELSE << >> >>)

ContextOf(allLines, index) ==
  LET contextBefore == IF index > 1 THEN TextOf(allLines[index - 1]) ELSE << >>
      contextAfter == IF index < Len(allLines) THEN TextOf(allLines[index + 1]) ELSE << >>
      NonEmpty(line) == line # << >>
  IN JoinLines(SelectSeq(<< contextBefore, TextOf(allLines[index]), contextAfter >>,
                         NonEmpty))

\* part_001:168-170  Object.keys(positionMappings).find(...): the keys are
\* integer keys, which are enumerated in ascending order; 0 for undefined
FirstKeyFor_Last(positionMappings, lineNumber) ==
  LET keys == {pos \in DOMAIN positionMappings : positionMappings[pos] = lineNumber}
  IN IF keys = {} THEN 0 ELSE CHOOSE pos \in keys : \A other \in keys : other <= pos

FirstKeyFor(positionMappings, lineNumber) ==
  LET keys == {pos \in DOMAIN positionMappings : positionMappings[pos] = lineNumber}
  IN IF keys = {} THEN 0 ELSE CHOOSE pos \in keys : \A other \in keys : pos <= other

\* part_001:111-181  the entries of one code line: none if its id has no
\* line number or it has no text, else the entry of the line and one entry
\* for each element in it with a name id.  `block` and `identifier` are not
\* fields of an entry: they tell which block the line is in and whether the
\* entry was made for an identifier
LineEntries(block, allLines, index, positionMappings) ==
  LET line == allLines[index]
      lineNumber == ParseLineNumber(line.id)
      lineContent == TextOf(line)
      fullContext == ContextOf(allLines, index)
      identifiers == SelectSeq(line.content, IsNameId)
  IN IF lineNumber = 0 \/ lineContent = << >> THEN << >>
     ELSE << [type |-> "code", content |-> lineContent, lineNumber |-> lineNumber,
              position |-> 0, context |-> fullContext,
              block |-> block, identifier |-> FALSE] >>
          \o [j \in 1..Len(identifiers) |->
                [type |-> "code", content |-> << identifiers[j] >>,
                 lineNumber |-> lineNumber,
                 position |-> FirstKeyFor(positionMappings, lineNumber),
                 context |-> fullContext,
                 block |-> block, identifier |-> TRUE]]

\* part_001:105-182  the code entries of a document
CodeLineEntries(blocks, positionMappings) ==
  Flatten([k \in 1..Len(blocks) |->
    Flatten([index \in 1..Len(blocks[k]) |->
      LineEntries(k, blocks[k], index, positionMappings)])])

InitLines ==
  /\ NoDirectory
  /\ PersistIdle
  /\ WrapIdle
  /\ CopyIdle
  /\ markup \in LineDocs
  /\ linePc = "start"
  /\ indexedLines = << >>
  /\ lineMappings = << >>
  /\ wrappedLines = << >>
  /\ lineEntries = << >>

\* indexer.ts:295-314  buildPositionMappings on the document
LineIndex ==
  /\ linePc = "start"
  /\ LET blocks == [k \in 1..Len(markup) |-> IndexerCodeLines(k - 1, markup[k])]
     IN /\ indexedLines' = blocks
        /\ lineMappings' = IndexLines(blocks)
  /\ linePc' = "indexed"
  /\ UNCHANGED << markup, wrappedLines, lineEntries, directoryVars, persistVars,
                  wrapVars, copyVars >>

\* types.ts:232-317  addLineNumbersToCodeBlocks on the document
LineWrap ==
  /\ linePc = "indexed"
  /\ wrappedLines' = [k \in 1..Len(markup) |-> TransformerCodeLines(k - 1, markup[k])]
  /\ linePc' = "wrapped"
  /\ UNCHANGED << markup, indexedLines, lineMappings, lineEntries, directoryVars,
                  persistVars, wrapVars, copyVars >>

\* part_001:83-182  extractSearchEntriesFromFile on the transformed document
\* with the document's sub-map
LineExtract ==
  /\ linePc = "wrapped"
  /\ lineEntries' = CodeLineEntries(wrappedLines, lineMappings)
  /\ linePc' = "extracted"
  /\ UNCHANGED << markup, indexedLines, lineMappings, wrappedLines, directoryVars,
                  persistVars, wrapVars, copyVars >>

NextLines ==
  \/ LineIndex
  \/ LineWrap
  \/ LineExtract

SpecLines == InitLines /\ [][NextLines]_vars

(***************************************************************************)
(* Properties.  They speak of the latest invocation of the link rewriter:  *)
(* the file it ran on, the document before (content) and after (output),   *)
(* and the table it read (lastRewrite.allMappings).                        *)
(***************************************************************************)
Rewrote == lastRewrite.pass >= 1

DocBefore == content[lastRewrite.file]

DocAfter == output[lastRewrite.file]

TableRead == lastRewrite.allMappings

LinkIndices == 1..Len(DocBefore.links)

\* the href of the i-th link before the rewrite is "#<a>" and a is mapped
SameDocHit(i, a) ==
  /\ DocBefore.links[i].href = NumHref(NoText, a)
  /\ Mapped(SubMap(TableRead, lastRewrite.file), a)

\* the blocks that hold an element with id a
BlocksHolding(doc, a) ==
  {doc.anchors[j].blk : j \in {k \in 1..Len(doc.anchors) :
                                  doc.anchors[k].id = a /\ doc.anchors[k].blk > 0}}

\* every file that can be read has its sub-map in the table
Complete(table) ==
  \A f \in FileSet \ unreadable :
    f \in DOMAIN table /\ table[f] = IndexDocument(content[f])

\* C1: in a document with more than one Region, every same-document link to
\* a mapped anchor a is rewritten to "#B<k>-L<L>", k being the Region that
\* holds the element with id a and L the mapped line
C1_SameDocLinkNamesOwningBlock ==
  Rewrote /\ DocBefore.nblocks > 1 =>
    \A i \in LinkIndices : \A a \in AnchorIds : \A k \in 1..DocBefore.nblocks :
      SameDocHit(i, a) /\ BlocksHolding(DocBefore, a) = {k} =>
        DocAfter.links[i].href =
          [pre |-> NoText, kind |-> "line", pos |-> 0, blk |-> k,
           line |-> TableRead[lastRewrite.file][a]]

\* C2: in a run of the command line, every unit is created after indexing
\* has ended, and the table a unit holds, like the table any rewrite reads,
\* has the sub-map of every document that indexing records
C2_IndexCompleteBeforeDispatch ==
  mode = "cli" =>
    /\ \A u \in 1..Len(units) : indexPc = "done" /\ Complete(units[u].mappings)
    /\ Rewrote => Complete(TableRead)

C2_Witness ==
  /\ mode = "cli"
  /\ Len(files) > IndexBatchSize
  /\ unreadable = {}
  /\ Rewrote
  /\ lastRewrite.file = files[1]

\* C3: in programmatic usage, the rewrite that follows the call of
\* buildPositionMappings reads a table with the sub-map of every readable
\* document of the directory
C3_LibraryRewriteSeesAllSubMaps ==
  mode = "lib" /\ Rewrote => \A f \in FileSet \ unreadable : f \in DOMAIN TableRead

\* C4: a link "T.html#a" with a mapped to L in the sub-map of T.html is
\* rewritten to "T.html#B1-L<L>", whatever block of T.html holds a
C4_CrossDocLinkNamesFirstBlock ==
  Rewrote =>
    \A i \in LinkIndices :
      LET href == DocBefore.links[i].href
      IN /\ href.kind = "num"
         /\ href.pre \in FileSet \ {lastRewrite.file}
         /\ Mapped(SubMap(TableRead, href.pre), href.pos)
         => DocAfter.links[i].href =
              [pre |-> href.pre, kind |-> "line", pos |-> 0, blk |-> 1,
               line |-> TableRead[href.pre][href.pos]]

\* a link to anchor 100 of ModuleA, which lies in the second block, rewritten
C4_Witness ==
  /\ Rewrote
  /\ lastRewrite.file = ListedFile(1)
  /\ ListedFile(2) \in DOMAIN TableRead
  /\ BlocksHolding(content[ListedFile(2)], 100) = {2}
  /\ \E i \in LinkIndices :
       /\ DocBefore.links[i].href = NumHref(ListedFile(2), 100)
       /\ DocAfter.links[i].href.kind = "line"

\* the i-th link has a numeric fragment that the table read does not map
Miss(i) ==
  LET href == DocBefore.links[i].href
  IN /\ href.kind = "num"
     /\ \/ href.pre = NoText /\ ~Mapped(SubMap(TableRead, lastRewrite.file), href.pos)
        \/ href.pre # NoText /\ ~Mapped(SubMap(TableRead, href.pre), href.pos)

\* C5: a link whose numeric fragment is not mapped keeps its href, and the
\* list the rewrite returns holds a diagnostic with that href and the
\* link's visible text
C5_MissIsReportedInReturnedList ==
  lastRewrite.pass = 1 =>
    \A i \in LinkIndices :
      Miss(i) =>
        /\ DocAfter.links[i].href = DocBefore.links[i].href
        /\ \E d \in 1..Len(lastRewrite.returned) :
             /\ lastRewrite.returned[d].href = DocBefore.links[i].href
             /\ lastRewrite.returned[d].text = DocBefore.links[i].text

\* the end-to-end scenario: three files, the module of two blocks, and a
\* consumer that links "#42" and "ModuleA.html#100", rewritten after the
\* indexing pass
Scenario ==
  /\ Len(files) = 3
  /\ unreadable = {}
  /\ content[ListedFile(2)] = ModuleADoc
  /\ Rewrote
  /\ lastRewrite.file = ListedFile(1)
  /\ indexPc = "done"
  /\ Len(DocBefore.links) = 2
  /\ DocBefore.links[1].href = NumHref(NoText, 42)
  /\ DocBefore.links[2].href = NumHref(ListedFile(2), 100)

LineHref(pre, blk, line) == [pre |-> pre, kind |-> "line", pos |-> 0, blk |-> blk, line |-> line]

\* C6 as stated: in the scenario the consumer's links become "#B1-L5" and
\* "ModuleA.html#B1-L3"
C6_ScenarioAsStated ==
  Scenario =>
    /\ DocAfter.links[1].href = LineHref(NoText, 1, 5)
    /\ DocAfter.links[2].href = LineHref(ListedFile(2), 1, 3)

\* the places of the consumer's own elements with id 42
Own42 ==
  {[blk |-> DocBefore.anchors[j].blk, line |-> DocBefore.anchors[j].line,
    place |-> DocBefore.anchors[j].place] :
     j \in {k \in 1..Len(DocBefore.anchors) : DocBefore.anchors[k].id = 42}}

\* C6 amended: in the scenario the second link becomes "ModuleA.html#B1-L3";
\* the first link is resolved against the consumer's own sub-map: it becomes
\* "#B1-L5" when the consumer's one element with id 42 lies on line 5 of its
\* first block, and stays "#42" when the consumer has no element with id 42
\* inside a code block
C6_ScenarioResolvesOwnAnchor ==
  Scenario =>
    /\ DocAfter.links[2].href = LineHref(ListedFile(2), 1, 3)
    /\ Own42 = {[blk |-> 1, line |-> 5, place |-> "line"]}
         => DocAfter.links[1].href = LineHref(NoText, 1, 5)
    /\ (\A p \in Own42 : p.blk = 0)
         => DocAfter.links[1].href = NumHref(NoText, 42)

C6_Witness ==
  /\ Scenario
  /\ Own42 = {[blk |-> 1, line |-> 5, place |-> "line"]}
  /\ DocAfter.links[1].href = LineHref(NoText, 1, 5)

\* C7: a further run of the link rewriter over the document it has
\* rewritten, reading the same table, changes no link of the document
C7_SecondPassChangesNothing ==
  [][ /\ lastRewrite.pass >= 1
      /\ lastRewrite'.pass > lastRewrite.pass
      /\ lastRewrite'.allMappings = lastRewrite.allMappings
      => output'[lastRewrite.file] = output[lastRewrite.file] ]_vars

\* a second pass over a document in which a same-document link and a
\* cross-document link were rewritten
C7_Witness ==
  /\ lastRewrite.pass = 2
  /\ \E i \in LinkIndices : DocAfter.links[i].href.kind = "line" /\ DocAfter.links[i].href.pre = NoText
  /\ \E i \in LinkIndices : DocAfter.links[i].href.kind = "line" /\ DocAfter.links[i].href.pre # NoText

\* C8: a rewritten link carries its former href in data-original-href, and
\* a link that is not rewritten carries no data-original-href
C8_RecoveryAttributeIsOriginalHref ==
  Rewrote =>
    \A i \in LinkIndices :
      IF DocAfter.links[i].href # DocBefore.links[i].href
      THEN DocAfter.links[i].orig = DocBefore.links[i].href
      ELSE DocAfter.links[i].orig = NoAttr

C8_Witness ==
  /\ lastRewrite.pass = 1
  /\ \E i \in LinkIndices : DocAfter.links[i].href # DocBefore.links[i].href
  /\ \E i \in LinkIndices : DocAfter.links[i].href = DocBefore.links[i].href

\* C9: when indexing has ended, every file that could be read has the
\* sub-map of its document, whatever files before or after it failed, and a
\* file that could not be read has no entry
C9_ReadFailureIsIsolated ==
  indexPc = "done" =>
    \A f \in FileSet :
      IF f \in unreadable
      THEN SubMap(globalPositionMappings, f) = EmptyMap
      ELSE f \in DOMAIN globalPositionMappings
             /\ globalPositionMappings[f] = IndexDocument(content[f])

\* the second of three files fails
C9_Witness ==
  /\ indexPc = "done"
  /\ Len(files) = 3
  /\ unreadable = {files[2]}
  /\ files[1] \in DOMAIN globalPositionMappings
  /\ files[3] \in DOMAIN globalPositionMappings

\* C10 as stated: every element of an indexed document whose id is made of
\* digits has an entry in the document's sub-map
C10_EveryNumericIdIsMapped ==
  \A f \in DOMAIN globalPositionMappings :
    \A j \in 1..Len(content[f].anchors) :
      content[f].anchors[j].id \in DOMAIN globalPositionMappings[f]

\* C10 amended: every element with an id made of digits that lies inside a
\* code block has an entry, with a line number of at least 1; an id borne
\* only by elements outside every code block has none
C10_NumericIdInsideBlockIsMapped ==
  \A f \in DOMAIN globalPositionMappings :
    \A j \in 1..Len(content[f].anchors) :
      LET el == content[f].anchors[j]
      IN IF BlocksHolding(content[f], el.id) # {}
         THEN el.id \in DOMAIN globalPositionMappings[f]
                /\ globalPositionMappings[f][el.id] >= 1
         ELSE el.id \notin DOMAIN globalPositionMappings[f]

\* an indexed document with an anchor that no code line contains and an
\* anchor outside every code block
C10_Witness ==
  \E f \in DOMAIN globalPositionMappings :
    /\ \E j \in 1..Len(content[f].anchors) : content[f].anchors[j].place = "loose"
    /\ \E j \in 1..Len(content[f].anchors) : content[f].anchors[j].blk = 0

(***************************************************************************)
(* Properties of the persistence of the search index.                      *)
(***************************************************************************)
\* writeSearchIndex has returned or thrown after taking the chunked path
ChunkedPersistenceEnded == persistPc \in {"done", "thrown"} /\ manifest.present

\* the names of the chunk files written
WrittenNames == {written[i].name : i \in 1..Len(written)}

\* the written chunks that hold the document of `file`
ChunksHolding(file) ==
  {i \in 1..Len(written) :
     \E j \in 1..Len(written[i].content) : written[i].content[j].file = file}

\* C11: when chunked persistence has ended, the chunk names of the metadata
\* file are exactly the names of the chunk files written, and its totals
\* are the number of documents and of entries of the whole index
C11_ManifestListsWrittenChunks ==
  ChunkedPersistenceEnded =>
    /\ {manifest.chunks[j] : j \in 1..Len(manifest.chunks)} = WrittenNames
    /\ manifest.totalFiles = Len(persistIndex)
    /\ manifest.totalEntries = TotalEntries(persistIndex)

\* C12: when chunked persistence has ended, every document of the index is
\* in exactly one written chunk, with its entry list
C12_EveryDocumentInOneChunk ==
  ChunkedPersistenceEnded =>
    \A d \in 1..Len(persistIndex) :
      /\ Cardinality(ChunksHolding(persistIndex[d].file)) = 1
      /\ \A i \in ChunksHolding(persistIndex[d].file) :
           \A j \in 1..Len(written[i].content) :
             written[i].content[j].file = persistIndex[d].file
               => written[i].content[j].entries = persistIndex[d].entries

\* C20: a call of writeChunkedSearchIndex on a chunk that failed to
\* serialize cuts it into chunks that are each smaller than it, in
\* documents or in text
C20_RechunkingYieldsSmallerChunks ==
  \A d \in 2..Len(stack) :
    \A c \in 1..Len(stack[d].chunks) :
      \/ Len(stack[d].chunks[c].chunk) < Len(stack[d].index)
      \/ SumOf(stack[d].chunks[c].chunk, "bytes") < SumOf(stack[d].index, "bytes")

(***************************************************************************)
(* Properties of the run of the command line.                              *)
(***************************************************************************)
\* the number of units a run creates when none fails (cli.ts:167)
NumBatches ==
  (Len(files) + MEMORY_EFFICIENT_BATCH_SIZE - 1) \div MEMORY_EFFICIENT_BATCH_SIZE

\* the unit ended by an uncaught error or a non-zero exit code before it
\* posted 'complete'
Fatal(u) == units[u].pc \in {"errored", "exited"}

\* the files of a unit's batch that cannot be read or cannot be written
FailingIn(batch) ==
  LET Fails(f) == f \in unreadable \cup unwritable
  IN SelectSeq(batch, Fails)

\* C13: once a unit has failed fatally, no later unit is created, the search
\* index is neither built nor written, and the coordinator is either still
\* to see the failure or has ended the process with a failure status
C13_FatalUnitFailsTheRun ==
  \A u \in 1..Len(units) :
    Fatal(u) =>
      /\ u = Len(units)
      /\ cliPc \in {"waiting", "exit1"}
      /\ ~searchIndex.built
      /\ ~artifact.written

\* the first of several units transforms a file and is then ended by an
\* uncaught error, and the process has ended
C13_Witness ==
  /\ NumBatches >= 2
  /\ Len(units) = 1
  /\ units[1].pc = "errored"
  /\ units[1].count >= 1
  /\ cliPc = "exit1"

\* C14: a unit that has reported completion has gone through all its files:
\* it posted an error for each file that could not be read or written, in
\* order, and wrote every other file; a run that ends successfully has
\* created every unit and written the search index, and a run only fails
\* when a unit failed fatally or the search index could not be written
C14_FileErrorIsContained ==
  /\ \A u \in 1..Len(units) :
       units[u].pc = "complete" =>
         /\ units[u].next = Len(units[u].files) + 1
         /\ units[u].errors = FailingIn(units[u].files)
         /\ units[u].count = Len(units[u].files) - Len(units[u].errors)
         /\ \A i \in 1..Len(units[u].files) :
              units[u].files[i] \notin unreadable \cup unwritable
                => /\ units[u].files[i] \in DOMAIN output
                   /\ output[units[u].files[i]].wrapped
  /\ cliPc = "exit0" =>
       /\ Len(units) = NumBatches
       /\ \A u \in 1..Len(units) : units[u].pc = "complete"
       /\ artifact.written
  /\ cliPc = "exit1" => writeFails \/ \E u \in 1..Len(units) : Fatal(u)

\* a file in the middle of the first of several batches fails, and the run
\* ends successfully
C14_Witness ==
  /\ cliPc = "exit0"
  /\ NumBatches >= 2
  /\ Len(units[1].errors) = 1
  /\ units[1].errors[1] = files[2]
  /\ units[1].count = MEMORY_EFFICIENT_BATCH_SIZE - 1

\* C15: every run ends: with a failure status, or successfully with the
\* search index written
C15_RunReachesOutcome ==
  <>(cliPc = "exit1" \/ (cliPc = "exit0" /\ artifact.written))

\* the second unit ends with a non-zero exit code and no 'error' event, and
\* the process has ended
C15_Witness ==
  /\ Len(units) = 2
  /\ units[1].pc = "complete"
  /\ units[2].pc = "exited"
  /\ cliPc = "exit1"

\* C16: the search index is built when every unit has been created and has
\* completed; it is the index of the documents of the output directory,
\* which holds every document that a unit could transform in its
\* transformed form, and the file written holds that index
C16_IndexBuiltAfterAllUnits ==
  /\ searchIndex.built =>
       /\ Len(units) = NumBatches
       /\ \A u \in 1..Len(units) : units[u].pc = "complete"
       /\ \A f \in FileSet \ (unreadable \cup unwritable) :
            f \in DOMAIN output /\ output[f].wrapped
       /\ searchIndex.index = buildSearchIndex(globalPositionMappings, output)
  /\ artifact.written =>
       /\ searchIndex.built
       /\ artifact.index = searchIndex.index

\* the index of a run of several units is written, with a code entry of a
\* line that the transformation wrapped
C16_Witness ==
  /\ artifact.written
  /\ Len(units) >= 2
  /\ \E f \in DOMAIN artifact.index :
       \E e \in 1..Len(artifact.index[f]) : artifact.index[f][e].type = "code"

(***************************************************************************)
(* Properties of the copies of the mapping table.                          *)
(***************************************************************************)
\* C17: no change a caller makes to a table they hold (a key added, a key
\* removed, an entry of a sub-map changed) changes the table that
\* getGlobalMappings returns or the line a link resolves to
C17_CallerMutationLeavesTable ==
  [][CallerMutates =>
       /\ Deref(heap', staticTable') = Deref(heap, staticTable)
       /\ \A file \in CopyFiles, position \in CopyPositions :
            Resolved(file, position)' = Resolved(file, position)]_vars

(***************************************************************************)
(* Properties of the progress of indexing.                                 *)
(***************************************************************************)
\* C18: the k-th call of the progress callback reports (k, number of listed
\* documents), and when buildPositionMappings has gone through the listing
\* there was one call for each listed document, so the last call reported
\* done = total
C18_ProgressReachesTotal ==
  /\ \A k \in 1..Len(progress) : progress[k] = << k, Len(files) >>
  /\ indexPc = "done" => Len(progress) = Len(files)

(***************************************************************************)
(* Properties of line wrapping.                                            *)
(***************************************************************************)
\* C19: the k-th region of the document gets the block id "B" followed by
\* the decimal text of k, and no two of the ids that line wrapping sets in a
\* document (block ids, line ids, content ids) are the same
C19_LineIdsDistinct ==
  /\ \A i \in 1..Len(assigned) :
       assigned[i].kind = "block" => assigned[i].id = << "B" >> \o Decimal(assigned[i].block)
  /\ \A k \in 1..(wrapNext - 1) :
       \E i \in 1..Len(assigned) : assigned[i].kind = "block" /\ assigned[i].block = k
  /\ \A i \in 1..Len(assigned), j \in 1..Len(assigned) :
       i < j => assigned[i].id # assigned[j].id

\* a wrapped document in which two lines of different regions have the same
\* line number, and in which a region and a line have numbers of two digits
C19_Witness ==
  /\ wrapNext > Len(regions)
  /\ \E i \in 1..Len(assigned), j \in 1..Len(assigned) :
       /\ assigned[i].kind = "line" /\ assigned[j].kind = "line"
       /\ assigned[i].block # assigned[j].block
       /\ assigned[i].line = assigned[j].line
  /\ \E i \in 1..Len(assigned) : assigned[i].kind = "line" /\ assigned[i].line >= 10
  /\ \E i \in 1..Len(assigned) : assigned[i].kind = "line" /\ assigned[i].block >= 10

(***************************************************************************)
(* Properties of the construction of the chunks.                           *)
(***************************************************************************)
RECURSIVE FilesOfChunks(_)
FilesOfChunks(chunks) ==
  IF chunks = << >> THEN << >>
  ELSE [j \in 1..Len(Head(chunks).chunk) |-> Head(chunks).chunk[j].file]
         \o FilesOfChunks(Tail(chunks))

\* C21: in every call of writeChunkedSearchIndex the chunks, one after the
\* other, hold the documents of the index in index order, each document once
\* and with its whole entry list; no chunk is empty; and a chunk of more than
\* one document has at most maxEntriesPerChunk entries
C21_ChunksKeepDocumentsWhole ==
  \A s \in 1..Len(stack) :
    LET index == stack[s].index
        chunks == stack[s].chunks
    IN /\ FilesOfChunks(chunks) = [i \in 1..Len(index) |-> index[i].file]
       /\ \A c \in 1..Len(chunks) :
            /\ Len(chunks[c].chunk) >= 1
            /\ \A j \in 1..Len(chunks[c].chunk) :
                 chunks[c].chunk[j].entries = EntriesOf(index, chunks[c].chunk[j].file)
            /\ Len(chunks[c].chunk) > 1 => TotalEntries(chunks[c].chunk) <= maxEntriesPerChunk

\* an index cut into a chunk of two documents that fill the cap exactly, and
\* a chunk of one document that alone exceeds the cap
C21_Witness ==
  /\ Len(stack) >= 1
  /\ \E c \in 1..Len(stack[1].chunks) :
       /\ Len(stack[1].chunks[c].chunk) = 2
       /\ TotalEntries(stack[1].chunks[c].chunk) = maxEntriesPerChunk
  /\ \E c \in 1..Len(stack[1].chunks) :
       /\ Len(stack[1].chunks[c].chunk) = 1
       /\ TotalEntries(stack[1].chunks[c].chunk) > maxEntriesPerChunk

(***************************************************************************)
(* Further properties of the link rewriter.                                *)
(***************************************************************************)
\* C22: after a rewrite, any two links of the document whose href was
\* "#<a>" for the same mapped anchor a have the same href
C22_SameAnchorSameHref ==
  Rewrote =>
    \A i \in LinkIndices, j \in LinkIndices : \A a \in AnchorIds :
      SameDocHit(i, a) /\ SameDocHit(j, a) =>
        DocAfter.links[i].href = DocAfter.links[j].href

(***************************************************************************)
(* Properties of the batches of the command line.                          *)
(***************************************************************************)
\* the documents given to the first u units, in the order they were given
RECURSIVE FilesOfUnits(_)
FilesOfUnits(u) ==
  IF u = 0 THEN << >> ELSE FilesOfUnits(u - 1) \o units[u].files

\* C23: the batches given to the units so far, one after the other, are the
\* beginning of the document list: each batch is a contiguous slice that
\* starts where the batch before ends; no document is given twice, to one
\* unit or to two, so no output path is written by two units; and when the
\* last batch has been processed every listed document has been given to
\* exactly one unit
C23_BatchesPartitionListing ==
  LET given == FilesOfUnits(Len(units))
  IN /\ Len(given) <= Len(files)
     /\ given = SubSeq(files, 1, Len(given))
     /\ \A u \in 1..Len(units) : units[u].files # << >>
     /\ \A i \in 1..Len(given), j \in 1..Len(given) : i # j => given[i] # given[j]
     /\ cliPc \in {"transformed", "indexed", "exit0"} => given = files

\* a run of three units, the last with a batch shorter than the others, that
\* has ended with every unit complete
C23_Witness ==
  /\ cliPc = "exit0"
  /\ Len(units) = 3
  /\ Len(units[3].files) < Len(units[2].files)
  /\ \A u \in 1..Len(units) : units[u].pc = "complete" /\ units[u].count = Len(units[u].files)

\* C24: every unit but the one created last has reported completion, so at
\* most one unit is running at any time
C24_OneUnitInFlight ==
  /\ \A u \in 1..(Len(units) - 1) : units[u].pc = "complete"
  /\ Cardinality({u \in 1..Len(units) : units[u].pc = "running"}) <= 1

\* the second unit is in the middle of its batch
C24_Witness ==
  /\ Len(units) = 2
  /\ units[2].pc = "running"
  /\ units[2].next > 1
  /\ units[2].next <= Len(units[2].files)
  /\ units[1].pc = "complete"

(***************************************************************************)
(* Properties of anchors that occur more than once.                        *)
(***************************************************************************)
\* the places of the elements with id a in the document, in document order
Occurrences(doc, a) == {j \in 1..Len(doc.anchors) : doc.anchors[j].id = a}

OccurrencesInCode(doc, a) == {j \in Occurrences(doc, a) : doc.anchors[j].blk > 0}

Last(places) == CHOOSE j \in places : \A k \in places : k <= j

\* C29 as stated: when an id occurs on more than one element of an indexed
\* document, the sub-map holds for it the line of the occurrence that comes
\* last in document order
C29_LastScannedWins ==
  \A f \in DOMAIN globalPositionMappings : \A a \in AnchorIds :
    Cardinality(Occurrences(content[f], a)) > 1 =>
      /\ a \in DOMAIN globalPositionMappings[f]
      /\ globalPositionMappings[f][a] =
           findLineNumberForElement(content[f].anchors[Last(Occurrences(content[f], a))])

\* C29 amended: when an id occurs on more than one element of an indexed
\* document and on at least one inside a code block, the sub-map holds for
\* it the line of the last occurrence inside a code block; occurrences
\* outside every code block, which resolve to no line, leave the entry as
\* it is
C29_LastInCodeWins ==
  \A f \in DOMAIN globalPositionMappings : \A a \in AnchorIds :
    /\ Cardinality(Occurrences(content[f], a)) > 1
         /\ OccurrencesInCode(content[f], a) # {} =>
           /\ a \in DOMAIN globalPositionMappings[f]
           /\ globalPositionMappings[f][a] =
                findLineNumberForElement(
                  content[f].anchors[Last(OccurrencesInCode(content[f], a))])
    /\ OccurrencesInCode(content[f], a) = {} => a \notin DOMAIN globalPositionMappings[f]

\* an id on line 5 of the first block and on line 3 of the second: the
\* sub-map holds 3
C29_Witness ==
  \E f \in DOMAIN globalPositionMappings : \E a \in AnchorIds :
    /\ content[f].anchors = << Anchor(a, AnchorSlots[2]), Anchor(a, AnchorSlots[4]) >>
    /\ globalPositionMappings[f][a] = 3

(***************************************************************************)
(* Properties of links that name a page that is not a module.              *)
(***************************************************************************)
\* C30: a link whose href ends in "#<digits>" and has, before the '#', a
\* text that is not a "<file>.html" target has the same href after the
\* rewrite
C30_ForeignPrefixUntouched ==
  Rewrote =>
    \A i \in LinkIndices :
      LET href == DocBefore.links[i].href
      IN href.kind = "num" /\ href.pre # NoText /\ href.pre[Len(href.pre)] # ".html" =>
           DocAfter.links[i].href = href

(***************************************************************************)
(* Properties of the lines of a document.                                  *)
(***************************************************************************)
\* the places of the newlines in the innerHTML of a block
Newlines(m) == {i \in 1..Len(m) : m[i] = "nl"}

\* the number of segments that the newlines cut the innerHTML into
SegmentCount(m) == Cardinality(Newlines(m)) + 1

\* the j-th segment: the characters after newline j - 1 and before newline j
Segment(m, j) ==
  LET Nth(k) == CHOOSE x \in Newlines(m) : Cardinality({y \in Newlines(m) : y <= x}) = k
      first == IF j = 1 THEN 1 ELSE Nth(j - 1) + 1
      last == IF j = SegmentCount(m) THEN Len(m) ELSE Nth(j) - 1
  IN SubSeq(m, first, last)

OnlySpaces(segment) == \A c \in 1..Len(segment) : segment[c] = " "

\* the line made of a segment: the segment, or a non-breaking space
Rendered(segment) == IF OnlySpaces(segment) THEN << "nbsp" >> ELSE segment

\* the text of a code line: its content without the white space at its ends
LineText(line) ==
  LET Black(c) == c \notin {" ", "nbsp"}
  IN IF SelectSeq(line.content, Black) = << >> THEN << >>
     ELSE LET first == CHOOSE c \in 1..Len(line.content) :
                         /\ Black(line.content[c])
                         /\ \A d \in 1..(c - 1) : ~Black(line.content[d])
              last == CHOOSE c \in 1..Len(line.content) :
                        /\ Black(line.content[c])
                        /\ \A d \in (c + 1)..Len(line.content) : ~Black(line.content[d])
          IN SubSeq(line.content, first, last)

\* C25: the indexer and the transformer make the same number of lines of
\* every block; the p-th element with a digit id, which the indexer records
\* at line L, lies in the transformed document in the line with id
\* "B<k>-LC<L>" of its block k; and a search entry with line number n of
\* block k has the text of the indexer's line n of block k
C25_SameLineNumbering ==
  /\ linePc \in {"wrapped", "extracted"} =>
       /\ \A k \in 1..Len(markup) : Len(indexedLines[k]) = Len(wrappedLines[k])
       /\ LET places == DigitIdPlaces(wrappedLines)
          IN /\ DOMAIN lineMappings = 1..Len(places)
             /\ \A p \in 1..Len(places) :
                  wrappedLines[places[p].blk][places[p].line].id =
                    << "B" >> \o Decimal(places[p].blk) \o << "-", "L", "C" >>
                      \o Decimal(lineMappings[p])
  /\ linePc = "extracted" =>
       \A e \in 1..Len(lineEntries) :
         LET entry == lineEntries[e]
         IN /\ entry.lineNumber \in 1..Len(indexedLines[entry.block])
            /\ ~entry.identifier =>
                 entry.content = LineText(indexedLines[entry.block][entry.lineNumber])

\* a document of two blocks: the first loses its last segment, the second
\* has an element with a digit id on its second line
C25_Witness ==
  /\ linePc = "extracted"
  /\ Len(markup) = 2
  /\ SegmentCount(markup[1]) > Len(wrappedLines[1])
  /\ Len(wrappedLines[1]) >= 1
  /\ \E p \in DOMAIN lineMappings :
       DigitIdPlaces(wrappedLines)[p].blk = 2 /\ lineMappings[p] = 2

\* C26 as stated: the segments become the lines 1..n in order, and the last
\* segment is left out if and only if it is empty
C26_LastDroppedIffEmpty ==
  linePc \in {"wrapped", "extracted"} =>
    \A k \in 1..Len(markup) :
      LET n == SegmentCount(markup[k])
          kept == IF Segment(markup[k], n) = << >> THEN n - 1 ELSE n
      IN /\ Len(wrappedLines[k]) = kept
         /\ Len(indexedLines[k]) = kept
         /\ \A i \in 1..Len(wrappedLines[k]) :
              wrappedLines[k][i].content = Rendered(Segment(markup[k], i))

\* C26 amended: the segments become the lines 1..n in order, and the last
\* segment is left out if and only if it is blank (empty or made of white
\* space only); every other segment, blank or not, is kept
C26_LastDroppedIffBlank ==
  linePc \in {"wrapped", "extracted"} =>
    \A k \in 1..Len(markup) :
      LET n == SegmentCount(markup[k])
          kept == IF OnlySpaces(Segment(markup[k], n)) THEN n - 1 ELSE n
      IN /\ Len(wrappedLines[k]) = kept
         /\ Len(indexedLines[k]) = kept
         /\ \A i \in 1..kept :
              /\ wrappedLines[k][i].content = Rendered(Segment(markup[k], i))
              /\ indexedLines[k][i].content = Rendered(Segment(markup[k], i))

\* a block whose last segment is made of spaces and is left out, and which
\* keeps an empty segment and a segment of spaces before it
C26_Witness ==
  /\ linePc = "wrapped"
  /\ LET n == SegmentCount(markup[1])
     IN /\ n >= 4
        /\ Segment(markup[1], n) = << " " >>
        /\ Len(wrappedLines[1]) = n - 1
        /\ \E i \in 1..(n - 1) : Segment(markup[1], i) = << >>
        /\ \E i \in 1..(n - 1) : Segment(markup[1], i) = << " " >>

\* the lines of the context of an entry
ContextLines(entry) == Split(entry.context)

\* the lines of the block of an entry, and the texts of the lines before and
\* after the line of the entry that count for the context: the lines at
\* distance `reach` at most
Neighbours(entry, reach) ==
  LET lines == wrappedLines[entry.block]
      n == entry.lineNumber
      before == {j \in 1..(n - 1) : n - j <= reach /\ LineText(lines[j]) # << >>}
      after == {j \in (n + 1)..Len(lines) : j - n <= reach /\ LineText(lines[j]) # << >>}
      Max(S) == CHOOSE x \in S : \A y \in S : y <= x
      Min(S) == CHOOSE x \in S : \A y \in S : x <= y
  IN (IF before = {} THEN << >> ELSE << LineText(lines[Max(before)]) >>)
       \o << LineText(lines[n]) >>
       \o (IF after = {} THEN << >> ELSE << LineText(lines[Min(after)]) >>)

\* C27 as stated: the context of an entry is the nearest line with text
\* before its line in the block, if there is one, the line itself, and the
\* nearest line with text after it, if there is one
C27_ContextOfNearestLines ==
  linePc = "extracted" =>
    \A e \in 1..Len(lineEntries) :
      ContextLines(lineEntries[e]) = Neighbours(lineEntries[e], MaxMarkup + 1)

\* C27 amended: the context of an entry is the line just before its line in
\* the block, if there is one and it has text, the line itself, and the line
\* just after it, if there is one and it has text; it has one to three
\* lines and none of them is empty
C27_ContextOfAdjacentLines ==
  linePc = "extracted" =>
    \A e \in 1..Len(lineEntries) :
      /\ ContextLines(lineEntries[e]) = Neighbours(lineEntries[e], 1)
      /\ Len(ContextLines(lineEntries[e])) \in 1..3
      /\ \A c \in 1..Len(ContextLines(lineEntries[e])) :
           ContextLines(lineEntries[e])[c] # << >>

\* a block with the lines "a", "n", blank, "a": the context of the second is
\* the first and the second, the context of the fourth is the fourth alone
C27_Witness ==
  /\ linePc = "extracted"
  /\ markup = << << "a", "nl", "n", "nl", "nl", "a" >> >>
  /\ \E e \in 1..Len(lineEntries) :
       lineEntries[e].lineNumber = 2 /\ Len(ContextLines(lineEntries[e])) = 2
  /\ \E e \in 1..Len(lineEntries) :
       lineEntries[e].lineNumber = 4 /\ ContextLines(lineEntries[e]) = << << "a" >> >>

\* the keys of the sub-map that map to line number n
KeysFor(n) == {p \in DOMAIN lineMappings : lineMappings[p] = n}

\* C28: an identifier entry with line number n has as position the first
\* key of the sub-map, in its enumeration order, that maps to n, or none
\* when no key maps to n; so two identifier entries of a document with the
\* same line number have the same position, whatever their blocks
C28_AnchorByLineNumber ==
  linePc = "extracted" =>
    /\ \A e \in 1..Len(lineEntries) :
         lineEntries[e].identifier =>
           LET position == lineEntries[e].position
               keys == KeysFor(lineEntries[e].lineNumber)
           IN /\ keys = {} => position = 0
              /\ keys # {} => position \in keys /\ \A q \in keys : position <= q
    /\ \A e \in 1..Len(lineEntries), f \in 1..Len(lineEntries) :
         /\ lineEntries[e].identifier /\ lineEntries[f].identifier
         /\ lineEntries[e].lineNumber = lineEntries[f].lineNumber
         => lineEntries[e].position = lineEntries[f].position

\* the first block has two elements with a digit id on its first line, the
\* second block an identifier on its first line: the identifier's entry has
\* the id of the first element of the first block
C28_Witness ==
  /\ linePc = "extracted"
  /\ Len(markup) = 2
  /\ Cardinality(KeysFor(1)) = 2
  /\ \E e \in 1..Len(lineEntries) :
       /\ lineEntries[e].identifier
       /\ lineEntries[e].block = 2
       /\ lineEntries[e].lineNumber = 1
       /\ lineEntries[e].position = 1
       /\ DigitIdPlaces(wrappedLines)[1].blk = 1

====
